---- MODULE Spec2Model ----
(***************************************************************************)
(* Instance-lifecycle orchestration core of the Dedi bots.                 *)
(*                                                                         *)
(* The repository holds several variants of the bot.  Each variant is a    *)
(* specification of this module over its own group of variables:           *)
(*   Spec        Dedi-Bot/index.js : registry, self-protection guard,      *)
(*               /list, /create, /destroy and their pollers                *)
(*   SpecPerm    dedi-bot/index.js : protection flag and destroy handler   *)
(*   SpecSimple  dedi-bot-simple   : file-backed tracker, /create monitor  *)
(*   SpecRetry   dedi-bot-simple/services/vultrWrapper.js : retrying client*)
(*   SpecPoll    the timed polling loops of Dedi-Bot/index.js              *)
(*   SpecStart   the Start operation of Dedi-Bot and of dedi-bot start.js  *)
(*   SpecGuard   isCurrentServer under concurrent listInstances calls      *)
(*   SpecPre     preconditions of Create, Restore and Snapshot             *)
(*   SpecSimpleCreates, SpecSimpleList                                     *)
(*               dedi-bot-simple : concurrent /create, /list sync          *)
(*   SpecRace    two destruction pollers writing the same record           *)
(*   SpecRegistry the registry under any sequence of calls                 *)
(*   SpecCheck, SpecCheckFair  checkInstanceStatus of the three variants   *)
(***************************************************************************)
EXTENDS Integers, Sequences, FiniteSets, TLC

\* ------------------------------------------------------------------------
\* Bounds of the model
\* ------------------------------------------------------------------------
MaxCreates == 1     \* instances the provider may create in one run
MaxPollers == 2     \* polling tasks that may be started in one run
MaxMenus == 1       \* select menus that may be open at the same time
MaxListCalls == 2   \* listInstances() calls that may run at the same time
MaxStarts == 2      \* remote start commands that may be sent in one run
SimMaxCreates == 2  \* /create commands the simple bot may serve in one run
MaxRaceClock == 3   \* ms that may pass while two pollers race
MaxRegCalls == 3    \* registry calls followed in one run
MaxCheckAttempts == 2  \* largest maxAttempts passed to checkInstanceStatus

\* ------------------------------------------------------------------------
\* Values
\* ------------------------------------------------------------------------
Null == "null"                      \* JavaScript null / undefined / unset
HostId == "host"                    \* the instance the bot itself runs on
IdPool == <<"a", "b", "c">>         \* ids the provider assigns, in order
AllIds == <<HostId>> \o IdPool      \* order of the provider's instance list
InstanceIds == {AllIds[k] : k \in 1..Len(AllIds)}
Users == {"u1", "u2"}
UnknownUser == "unknown"
PlaceholderIp == "0.0.0.0"
RealIp == "1.2.3.4"
Absent == [exists |-> FALSE]
Undefined == "undefined"            \* JavaScript undefined, where it differs from null

\* Values of the retrying client before any call is made.
NoOptions ==
  [maxRetries |-> 0, retryDelay |-> 0, retryMultiplier |-> 0,
   validateResponse |-> "none", propertyPath |-> Null]
NoError == [type |-> "none", attempt |-> 0]
NoResponse == [present |-> FALSE, property |-> Undefined]
NoOutcome == [kind |-> "pending"]

\* States a remote instance passes through (status, power_status, main_ip).
RemoteShapes ==
  { [status |-> "pending", power_status |-> "stopped", main_ip |-> PlaceholderIp],
    [status |-> "active",  power_status |-> "stopped", main_ip |-> RealIp],
    [status |-> "active",  power_status |-> "running", main_ip |-> PlaceholderIp],
    [status |-> "active",  power_status |-> "running", main_ip |-> RealIp] }
HostShape == [status |-> "active", power_status |-> "running", main_ip |-> RealIp]
Existing(shape, deleting) ==
  [exists |-> TRUE, status |-> shape.status, power_status |-> shape.power_status,
   main_ip |-> shape.main_ip, deleting |-> deleting]

VARIABLES
  \* ---- Dedi-Bot/index.js ----
  instances,                 \* instanceState.instances (array of records)
  currentServerInstanceId,   \* cached self-host id
  excludeInstanceId,         \* process.env.EXCLUDE_INSTANCE_ID
  remote,                    \* the provider's instances
  created,                   \* number of ids the provider has assigned
  menus,                     \* open 'destroy_server' select menus (sets of ids)
  pollers,                   \* polling tasks started so far
  deleteLog,                 \* history: delete commands the bot has issued
  \* ---- dedi-bot/index.js ----
  permInstances,             \* instanceState.instances
  protectedInstances,        \* instanceState.protectedInstances (a Set)
  permRemote,                \* the provider's instances
  permCreated,               \* number of ids the provider has assigned
  permMenus,                 \* open select menus: [kind, ids]
  permVerifying,             \* destroy handlers waiting 3 s to verify
  permDeleteLog,             \* history: delete commands the bot has issued
  \* ---- dedi-bot-simple: commands/public/create.js, instanceTracker.js ----
  logData,                   \* instances array of config/instanceLog.json
  simRemote,                 \* the provider's instances
  simCreated,                \* number of ids the provider has assigned
  simCreating,               \* /create commands past their check, per user
  monitors,                  \* monitorInstanceStatus tasks, per instance id
  simList,                   \* the /list handler: where it stands, what it read
  \* ---- dedi-bot-simple/services/vultrWrapper.js ----
  caller,                    \* the wrapper function under way, and its phase
  options,                   \* options of the executeWithRetry call under way
  pc,                        \* position inside executeWithRetry
  retryCount,                \* let retryCount
  delay,                     \* let delay
  lastError,                 \* let lastError
  firstError,                \* 'error' caught by createInstanceFromSnapshot
  finalResponse,             \* history: the response the try block returned on
  callOutcome,               \* what the wrapper function returned or threw
  requests,                  \* history: the apiCall invocations, in order
  sleeps,                    \* history: the delays passed to setTimeout
  acceptedAt,                \* history: the request that created an instance (0: none)
  \* ---- the timed polling loops (Dedi-Bot/index.js, vultrWrapper.js) ----
  pollKind,                  \* which polling function runs
  pollPc,                    \* where it stands
  clock,                     \* Date.now() - startTime, in ms
  pollTimeout,               \* timeout / maxWaitTime of the run, in ms
  maxAttempts,               \* maxAttempts of monitorSnapshotStatus
  pollTarget,                \* targetPowerStatus of waitForInstanceStatus
  pendingDelay,              \* delay of the setTimeout that is pending, in ms
  timers,                    \* history: timer delays that have elapsed
  fetched,                   \* history: fetches made
  permanentSeen,             \* history: a fetch failed with a permanent error
  errorSeen,                 \* history: a fetch read the snapshot in status error
  startCommands,             \* history: remote start commands sent
  pollResult,                \* what the run reported to its caller
  lastFetch,                 \* history: how the latest fetch ended
  pollRegistry,              \* instanceState.instances as the poll finds it
  \* ---- the Start operation (Dedi-Bot/index.js, dedi-bot start.js) ----
  startVariant,              \* which bot runs
  startRemote,               \* power_status of each instance at the provider
  startRegistry,             \* the bot's records of the instances
  startMenus,                \* open 'start_server' select menus (sets of ids)
  startWaiting,              \* ids whose start handler waits for 'running'
  startLog,                  \* history: remote calls of the Start operation
  \* ---- the self-protection guard under concurrent listings ----
  listCalls,                 \* listInstances() calls under way
  probeCount,                \* history: probes of the metadata endpoint
  guardLog,                  \* history: isCurrentServer calls that probed
  returnedLists,             \* history: what listInstances() returned
  \* ---- the preconditions of Create, Restore and Snapshot ----
  preVariant,                \* which bot runs
  preSnapshots,              \* the provider's snapshots, newest first
  preEnvSnapshot,            \* process.env.VULTR_SNAPSHOT_ID
  prePower,                  \* power_status of the instance at the provider
  preRegistry,               \* the bot's records of the instances
  preHandlers,               \* snapshot handlers suspended at their reply
  preLog,                    \* history: remote commands sent
  \* ---- two destruction pollers of one instance ----
  raceRegistry,              \* instanceState.instances
  raceStart,                 \* history: instanceState.instances at the start
  racePollers,               \* where each poller stands, and when it wrote
  raceClock,                 \* Date.now(), in ms since the start
  \* ---- the registry under arbitrary calls ----
  regKind,                   \* which registry: instanceState or instanceTracker
  regInstances,                  \* its records (instances), in order
  regCalls,                  \* calls made so far
  regLast,                   \* history: the last call, the registry before it, its result
  \* ---- checkInstanceStatus ----
  checkCall,                 \* which checkInstanceStatus runs, with its arguments
  checkFrame,                \* its locals: where it stands, i, retryCount
  checkHist                  \* history: fetches, raw requests, what they read, the result

botVars == <<instances, currentServerInstanceId, excludeInstanceId, remote,
             created, menus, pollers, deleteLog>>
permVars == <<permInstances, protectedInstances, permRemote, permCreated,
              permMenus, permVerifying, permDeleteLog>>
simVars == <<logData, simRemote, simCreated, simCreating, monitors, simList>>
retryVars == <<caller, options, pc, retryCount, delay, lastError, firstError,
               finalResponse, callOutcome, requests, sleeps, acceptedAt>>
pollVars == <<pollKind, pollPc, clock, pollTimeout, maxAttempts, pollTarget,
              pendingDelay,
              timers, fetched, permanentSeen, errorSeen, startCommands,
              pollResult, lastFetch, pollRegistry>>
startVars == <<startVariant, startRemote, startRegistry, startMenus,
               startWaiting, startLog>>
guardVars == <<listCalls, probeCount, guardLog, returnedLists>>
preVars == <<preVariant, preSnapshots, preEnvSnapshot, prePower, preRegistry,
             preHandlers, preLog>>
raceVars == <<raceRegistry, raceStart, racePollers, raceClock>>
regVars == <<regKind, regInstances, regCalls, regLast>>
checkVars == <<checkCall, checkFrame, checkHist>>
vars == <<botVars, permVars, simVars, retryVars, pollVars, startVars,
          guardVars, preVars, raceVars, regVars, checkVars>>
\* what Dedi-Bot/index.js's commands never touch
notBot == <<permVars, simVars, retryVars, pollVars, startVars,
  guardVars, preVars, raceVars, regVars, checkVars>>
\* what dedi-bot/index.js never touches
notPerm == <<botVars, simVars, retryVars, pollVars, startVars,
  guardVars, preVars, raceVars, regVars, checkVars>>
\* what the simple bot's commands never touch
notSim == <<botVars, permVars, retryVars, pollVars, startVars,
  guardVars, preVars, raceVars, regVars, checkVars>>
\* what executeWithRetry never touches
notRetry == <<botVars, permVars, simVars, pollVars, startVars,
  guardVars, preVars, raceVars, regVars, checkVars>>
\* what a polling loop never touches
notPoll == <<botVars, permVars, simVars, retryVars, startVars,
  guardVars, preVars, raceVars, regVars, checkVars>>
\* what the Start operation never touches
notStart == <<botVars, permVars, simVars, retryVars, pollVars,
  guardVars, preVars, raceVars, regVars, checkVars>>
\* what the guard never touches (it assigns currentServerInstanceId only)
notGuard == <<instances, excludeInstanceId, remote, created, menus, pollers,
              deleteLog, permVars, simVars, retryVars, pollVars, startVars,
              preVars, raceVars, regVars, checkVars>>
\* what the precondition checks never touch
notPre == <<botVars, permVars, simVars, retryVars, pollVars, startVars,
            guardVars, raceVars, regVars, checkVars>>
\* what the two racing pollers never touch
notRace == <<botVars, permVars, simVars, retryVars, pollVars, startVars,
             guardVars, preVars, regVars, checkVars>>
\* what the registry's own functions never touch
notReg == <<botVars, permVars, simVars, retryVars, pollVars, startVars,
            guardVars, preVars, raceVars, checkVars>>
\* what checkInstanceStatus never touches
notCheck == <<botVars, permVars, simVars, retryVars, pollVars, startVars,
              guardVars, preVars, raceVars, regVars>>

\* ------------------------------------------------------------------------
\* OwnershipRegistry: instanceState of Dedi-Bot/index.js
\* ------------------------------------------------------------------------
TerminalStatuses == {"terminated", "destroyed"}

\* Array.prototype.findIndex(i => i.id === id); 0 stands for -1.
FindIndex(insts, id) ==
  IF \E k \in 1..Len(insts) : insts[k].id = id
  THEN CHOOSE k \in 1..Len(insts) :
         /\ insts[k].id = id
         /\ \A j \in 1..(k - 1) : insts[j].id # id
  ELSE 0

\* a || b on the values the model uses (null, undefined and '' are falsy).
OrElse(a, b) == IF a = Null \/ a = "" THEN b ELSE a

\* A variant of trackInstance that pushes without looking for the id.
trackInstanceAlwaysPush(insts, instanceId, userId, status, ip) ==
  Append(insts, [id |-> instanceId,
                 creator |-> userId,
                 status |-> OrElse(status, "creating"),
                 ip |-> OrElse(ip, Null)])

\* instanceState.trackInstance(instanceId, userId, username, status, metadata)
trackInstance(insts, instanceId, userId, status, ip) ==
  LET instanceData == [id |-> instanceId,
                       creator |-> userId,
                       status |-> OrElse(status, "creating"),
                       ip |-> OrElse(ip, Null)]
      existingIndex == FindIndex(insts, instanceId)
  IN IF existingIndex >= 1
     THEN [insts EXCEPT ![existingIndex] = instanceData]
     ELSE Append(insts, instanceData)

\* A variant of updateInstance that inserts a record for an unknown id.
updateInstanceOrInsert(insts, instanceId, status, hasIp, ip) ==
  IF \E k \in 1..Len(insts) : insts[k].id = instanceId
  THEN [k \in 1..Len(insts) |->
          IF insts[k].id = instanceId
          THEN [insts[k] EXCEPT !.status = status,
                                !.ip = IF hasIp THEN ip ELSE @]
          ELSE insts[k]]
  ELSE Append(insts, [id |-> instanceId, creator |-> UnknownUser,
                      status |-> status, ip |-> IF hasIp THEN ip ELSE Null])

\* instanceState.updateInstance(instanceId, status, metadata); hasIp tells
\* whether metadata carries an ip key.
updateInstance(insts, instanceId, status, hasIp, ip) ==
  LET instanceIndex == FindIndex(insts, instanceId)
  IN IF instanceIndex >= 1
     THEN [insts EXCEPT ![instanceIndex] =
             [@ EXCEPT !.status = status,
                       !.ip = IF hasIp THEN ip ELSE @]]
     ELSE insts

\* instanceState.getActiveInstances()
getActiveInstances(insts) ==
  SelectSeq(insts, LAMBDA i : i.status \notin TerminalStatuses)

IdsOf(seq) == {seq[k].id : k \in 1..Len(seq)}

\* ------------------------------------------------------------------------
\* The provider (cloud API) as the bot sees it
\* ------------------------------------------------------------------------
\* The instance object of an API response.
ApiInstance(id) ==
  [id |-> id, status |-> remote[id].status,
   power_status |-> remote[id].power_status, main_ip |-> remote[id].main_ip]

\* response.instances of vultr.instances.listInstances()
RemoteList ==
  LET present == SelectSeq(AllIds, LAMBDA id : remote[id].exists)
  IN [k \in 1..Len(present) |-> ApiInstance(present[k])]

\* Outcomes of one vultr.instances.getInstance call: the instance, or an
\* error carrying an HTTP status.  404 is answered for an absent instance
\* only; 403 (access refused) and 500 may be answered at any time.
FetchOutcomes(id) ==
  (IF remote[id].exists
   THEN {[ok |-> TRUE, instance |-> ApiInstance(id), http |-> 200]}
   ELSE {[ok |-> FALSE, instance |-> Null, http |-> 404]})
  \cup {[ok |-> FALSE, instance |-> Null, http |-> h] : h \in {403, 500}}

\* ------------------------------------------------------------------------
\* SelfProtectionGuard
\* ------------------------------------------------------------------------
\* Outcomes of the metadata probe: an OK answer carrying the host's id, or a
\* failure (exception, timeout or a non-OK answer).
ProbeOutcomes == {"ok", "failed"}

\* A variant of getCurrentServerInstanceId() without the fallback to
\* EXCLUDE_INSTANCE_ID.
getCurrentServerInstanceIdNoFallback(probe) ==
  IF probe = "ok" THEN HostId ELSE Null

\* getCurrentServerInstanceId(): response.ok yields the id the endpoint
\* answered; a throw or a non-OK answer falls through to
\* process.env.EXCLUDE_INSTANCE_ID || null.
getCurrentServerInstanceId(probe) ==
  IF probe = "ok" THEN HostId ELSE OrElse(excludeInstanceId, Null)

\* The cache after isCurrentServer(instanceId) ran with this probe outcome.
CacheAfter(cache, probe) ==
  IF cache = Null THEN getCurrentServerInstanceId(probe) ELSE cache

\* isCurrentServer(instanceId): the answer, given the cache it leaves.
isCurrentServer(cache, probe, instanceId) ==
  CacheAfter(cache, probe) = instanceId

\* The loop of listInstances(): one isCurrentServer call per listed instance,
\* in list order; probes[id] is the outcome of the probe made for id, if one
\* is made.  Yields the filtered list and the cache left behind.
RECURSIVE FilterCurrent(_, _, _, _, _)
FilterCurrent(list, k, cache, probes, kept) ==
  IF k > Len(list)
  THEN [instances |-> kept, cache |-> cache]
  ELSE LET id == list[k].id
           isCurrent == isCurrentServer(cache, probes[id], id)
       IN FilterCurrent(list, k + 1, CacheAfter(cache, probes[id]), probes,
                        IF isCurrent THEN kept ELSE Append(kept, list[k]))

\* listInstances() (EXCLUDE_SNAPSHOT_ID is not set)
listInstances(list, cache, probes) ==
  FilterCurrent(list, 1, cache, probes, <<>>)

\* ------------------------------------------------------------------------
\* /list: the sync of the registry with the provider's list
\* ------------------------------------------------------------------------
RECURSIVE SyncListed(_, _, _, _)
SyncListed(insts, vultrInstances, k, activeIds) ==
  IF k > Len(vultrInstances)
  THEN insts
  ELSE LET v == vultrInstances[k]
           next == IF v.id \in activeIds
                   THEN updateInstance(insts, v.id, v.power_status, TRUE, v.main_ip)
                   ELSE IF v.power_status = "running"
                        THEN trackInstance(insts, v.id, UnknownUser,
                                           v.power_status, v.main_ip)
                        ELSE insts
       IN SyncListed(next, vultrInstances, k + 1, activeIds)

RECURSIVE SyncMissing(_, _, _, _)
SyncMissing(insts, activeInstances, k, vultrIds) ==
  IF k > Len(activeInstances)
  THEN insts
  ELSE LET t == activeInstances[k]
           next == IF t.id \notin vultrIds
                   THEN updateInstance(insts, t.id, "terminated", FALSE, Null)
                   ELSE insts
       IN SyncMissing(next, activeInstances, k + 1, vultrIds)

\* listCommand.execute: the body of the inner try block
SyncWithVultr(insts, vultrInstances) ==
  LET activeInstances == getActiveInstances(insts)
      listed == SyncListed(insts, vultrInstances, 1, IdsOf(activeInstances))
  IN SyncMissing(listed, activeInstances, 1, IdsOf(vultrInstances))

\* ------------------------------------------------------------------------
\* Polling tasks
\* ------------------------------------------------------------------------
NoPoller == [kind |-> "none", id |-> Null, pc |-> "none", expired |-> FALSE,
             reports |-> <<>>]
NewPoller(kind, id) ==
  [kind |-> kind, id |-> id, pc |-> "scheduled", expired |-> FALSE,
   reports |-> <<>>]
PollerIds == 1..MaxPollers
HasFreeSlot == \E p \in PollerIds : pollers[p].kind = "none"
FreeSlot == CHOOSE p \in PollerIds :
              /\ pollers[p].kind = "none"
              /\ \A q \in 1..(p - 1) : pollers[q].kind # "none"
\* The task reports its final message and schedules no further poll.
Finish(p, outcome, late) ==
  [pollers EXCEPT ![p].pc = "done",
                  ![p].expired = late,
                  ![p].reports = Append(@, outcome)]

\* The condition under which startInstanceStatusPolling reports READY.
IsReady(instance) ==
  /\ instance.status = "active"
  /\ instance.power_status = "running"
  /\ instance.main_ip # Null
  /\ instance.main_ip # PlaceholderIp
  /\ instance.main_ip # ""

\* A monitorInstanceStatus task: where it stands, its attempts counter and
\* the final messages it has sent.
NoMonitor == [pc |-> "none", attempts |-> 0, reports |-> <<>>]

\* The bot runs as long as its host exists.
BotAlive == remote[HostId].exists

\* ------------------------------------------------------------------------
\* Dedi-Bot/index.js: commands, handlers and pollers
\* ------------------------------------------------------------------------
BotInit ==
  /\ instances = <<>>
  /\ currentServerInstanceId = Null
  /\ excludeInstanceId \in {Null, HostId}
  /\ remote = [id \in InstanceIds |->
                 IF id = HostId THEN Existing(HostShape, FALSE) ELSE Absent]
  /\ created = 0
  /\ menus = {}
  /\ pollers = [p \in PollerIds |-> NoPoller]
  /\ deleteLog = {}

\* /list: listInstances() answered; the registry is synced with the list.
\* (When the list call throws the registry is left as it is.)
ListCommand ==
  /\ UNCHANGED notBot
  /\ BotAlive
  /\ \E probes \in [IdsOf(RemoteList) -> ProbeOutcomes] :
       LET res == listInstances(RemoteList, currentServerInstanceId, probes)
       IN /\ currentServerInstanceId' = res.cache
          /\ instances' = SyncWithVultr(instances, res.instances)
  /\ UNCHANGED <<excludeInstanceId, remote, created, menus, pollers, deleteLog>>

\* /create: the snapshot list and the create call are answered; the new
\* instance is tracked and its status poller is started (first poll by timer).
CreateCommand(user) ==
  /\ UNCHANGED notBot
  /\ BotAlive
  /\ created < MaxCreates
  /\ created < Len(IdPool)
  /\ HasFreeSlot
  /\ LET id == IdPool[created + 1]
         shape == [status |-> "pending", power_status |-> "stopped",
                   main_ip |-> PlaceholderIp]
     IN /\ remote' = [remote EXCEPT ![id] = Existing(shape, FALSE)]
        /\ instances' = trackInstance(instances, id, user,
                                      OrElse(shape.status, "creating"),
                                      shape.main_ip)
        /\ pollers' = [pollers EXCEPT ![FreeSlot] = NewPoller("create", id)]
  /\ created' = created + 1
  /\ UNCHANGED <<currentServerInstanceId, excludeInstanceId, menus, deleteLog>>

\* startInstanceStatusPolling.pollStatus: one poll of a created instance.
StatusPoll(p) ==
  /\ UNCHANGED notBot
  /\ BotAlive
  /\ pollers[p].kind = "create"
  /\ pollers[p].pc = "scheduled"
  /\ \/ /\ pollers[p].expired
        /\ pollers' = Finish(p, "TimedOut", TRUE)
        /\ UNCHANGED instances
     \/ /\ ~pollers[p].expired
        /\ \E r \in FetchOutcomes(pollers[p].id) :
             IF r.ok
             THEN /\ instances' = updateInstance(instances, pollers[p].id,
                                                 r.instance.power_status,
                                                 TRUE, r.instance.main_ip)
                  /\ pollers' = IF IsReady(r.instance)
                                THEN Finish(p, "Succeeded", FALSE)
                                ELSE pollers
             ELSE /\ \E late \in BOOLEAN :
                       pollers' = IF late
                                  THEN Finish(p, "ApiErrors", TRUE)
                                  ELSE pollers
                  /\ UNCHANGED instances
  /\ UNCHANGED <<currentServerInstanceId, excludeInstanceId, remote, created,
                 menus, deleteLog>>

\* /destroy: the select menu offers the instances listInstances() returned.
DestroyCommand ==
  /\ UNCHANGED notBot
  /\ BotAlive
  /\ \E probes \in [IdsOf(RemoteList) -> ProbeOutcomes] :
       LET res == listInstances(RemoteList, currentServerInstanceId, probes)
           activeInstances ==
             SelectSeq(res.instances,
                       LAMBDA i : i.status # "destroyed"
                                  /\ i.power_status # "destroyed")
       IN /\ currentServerInstanceId' = res.cache
          /\ IF Len(activeInstances) = 0
             THEN UNCHANGED menus
             ELSE /\ Cardinality(menus \cup {IdsOf(activeInstances)}) <= MaxMenus
                  /\ menus' = menus \cup {IdsOf(activeInstances)}
  /\ UNCHANGED <<instances, excludeInstanceId, remote, created, pollers,
                 deleteLog>>

\* The 'destroy_server' handler: the user picked destroyId in an open menu.
DestroySelect(menu, destroyId) ==
  /\ UNCHANGED notBot
  /\ BotAlive
  /\ menu \in menus
  /\ destroyId \in menu
  /\ menus' = menus \ {menu}
  /\ \E r \in FetchOutcomes(destroyId) :
       \/ /\ ~r.ok                    \* getInstance throws: error reply
          /\ UNCHANGED <<remote, pollers, deleteLog>>
       \/ /\ r.ok                     \* deleteInstance is refused: error reply
          /\ UNCHANGED <<remote, pollers, deleteLog>>
       \/ /\ r.ok                     \* deleteInstance is accepted
          /\ HasFreeSlot
          /\ deleteLog' = deleteLog \cup
               {[id |-> destroyId, self |-> currentServerInstanceId]}
          /\ remote' = [remote EXCEPT ![destroyId].deleting = TRUE]
          /\ pollers' = [pollers EXCEPT ![FreeSlot] = NewPoller("destroy", destroyId)]
  /\ UNCHANGED <<instances, currentServerInstanceId, excludeInstanceId, created>>

\* startInstanceDestructionPolling.pollStatus: one poll of a destruction.
DestructionPoll(p) ==
  /\ UNCHANGED notBot
  /\ BotAlive
  /\ pollers[p].kind = "destroy"
  /\ pollers[p].pc = "scheduled"
  /\ \/ /\ pollers[p].expired
        /\ pollers' = Finish(p, "TimedOut", TRUE)
        /\ UNCHANGED instances
     \/ /\ ~pollers[p].expired
        /\ \E r \in FetchOutcomes(pollers[p].id) :
             IF r.ok
             THEN UNCHANGED <<instances, pollers>>     \* still exists: poll again
             ELSE IF r.http \in {404, 403}
             THEN /\ pollers' = Finish(p, "Succeeded", FALSE)
                  /\ instances' = updateInstance(instances, pollers[p].id,
                                                 "destroyed", FALSE, Null)
             ELSE /\ \E late \in BOOLEAN :
                       pollers' = IF late
                                  THEN Finish(p, "ApiErrors", TRUE)
                                  ELSE pollers
                  /\ UNCHANGED instances
  /\ UNCHANGED <<currentServerInstanceId, excludeInstanceId, remote, created,
                 menus, deleteLog>>

\* Time passes: the budget (maxWaitTime) of a polling task runs out.
Expire(p) ==
  /\ UNCHANGED notBot
  /\ pollers[p].pc = "scheduled"
  /\ ~pollers[p].expired
  /\ pollers' = [pollers EXCEPT ![p].expired = TRUE]
  /\ UNCHANGED <<instances, currentServerInstanceId, excludeInstanceId, remote,
                 created, menus, deleteLog>>

\* The provider moves an instance on (provisioning, power, address).
RemoteChange(id, shape) ==
  /\ UNCHANGED notBot
  /\ id # HostId
  /\ remote[id].exists
  /\ Existing(shape, remote[id].deleting) # remote[id]
  /\ remote' = [remote EXCEPT ![id] = Existing(shape, remote[id].deleting)]
  /\ UNCHANGED <<instances, currentServerInstanceId, excludeInstanceId, created,
                 menus, pollers, deleteLog>>

\* The provider completes an accepted deletion.
RemoteVanish(id) ==
  /\ UNCHANGED notBot
  /\ remote[id].exists
  /\ remote[id].deleting
  /\ remote' = [remote EXCEPT ![id] = Absent]
  /\ UNCHANGED <<instances, currentServerInstanceId, excludeInstanceId, created,
                 menus, pollers, deleteLog>>

Next ==
  \/ ListCommand
  \/ \E user \in Users : CreateCommand(user)
  \/ \E p \in PollerIds : StatusPoll(p)
  \/ DestroyCommand
  \/ \E menu \in menus : \E destroyId \in menu : DestroySelect(menu, destroyId)
  \/ \E p \in PollerIds : DestructionPoll(p)
  \/ \E p \in PollerIds : Expire(p)
  \/ \E id \in InstanceIds : \E shape \in RemoteShapes : RemoteChange(id, shape)
  \/ \E id \in InstanceIds : RemoteVanish(id)

\* The variables of dedi-bot/index.js while another variant runs.
PermIdle ==
  /\ permInstances = <<>>
  /\ protectedInstances = {}
  /\ permRemote = [id \in InstanceIds |-> Absent]
  /\ permCreated = 0
  /\ permMenus = {}
  /\ permVerifying = {}
  /\ permDeleteLog = {}

\* The variables of dedi-bot-simple's commands while another variant runs.
SimIdle ==
  /\ logData = <<>>
  /\ simRemote = [id \in InstanceIds |-> Absent]
  /\ simCreated = 0
  /\ simCreating = [u \in Users |-> 0]
  /\ monitors = [id \in InstanceIds |-> NoMonitor]
  /\ simList = [pc |-> "idle"]

\* The variables of Dedi-Bot/index.js while another variant runs.
BotIdle ==
  /\ instances = <<>>
  /\ currentServerInstanceId = Null
  /\ excludeInstanceId = Null
  /\ remote = [id \in InstanceIds |-> Absent]
  /\ created = 0
  /\ menus = {}
  /\ pollers = [p \in PollerIds |-> NoPoller]
  /\ deleteLog = {}

\* The variables of vultrWrapper.js while no wrapper function is called.
RetryIdle ==
  /\ caller = "none"
  /\ options = NoOptions
  /\ pc = "idle"
  /\ retryCount = 0
  /\ delay = 0
  /\ lastError = NoError
  /\ firstError = NoError
  /\ finalResponse = NoResponse
  /\ callOutcome = NoOutcome
  /\ requests = <<>>
  /\ sleeps = <<>>
  /\ acceptedAt = 0

\* The variables of the timed polling loops while none of them runs.
PollIdle ==
  /\ pollKind = "none"
  /\ pollPc = "idle"
  /\ clock = 0
  /\ pollTimeout = 0
  /\ maxAttempts = 0
  /\ pollTarget = Null
  /\ pendingDelay = 0
  /\ timers = 0
  /\ fetched = 0
  /\ permanentSeen = FALSE
  /\ errorSeen = FALSE
  /\ startCommands = 0
  /\ pollResult = NoOutcome
  /\ lastFetch = "none"
  /\ pollRegistry = <<>>

\* The variables of the Start operation while it is not under study.
StartIdle ==
  /\ startVariant = "none"
  /\ startRemote = <<>>
  /\ startRegistry = <<>>
  /\ startMenus = {}
  /\ startWaiting = {}
  /\ startLog = {}

\* The guard's bookkeeping while no listing is followed step by step.
GuardIdle ==
  /\ listCalls = <<>>
  /\ probeCount = 0
  /\ guardLog = {}
  /\ returnedLists = {}

\* The variables of the precondition checks while they are not under study.
PreIdle ==
  /\ preVariant = "none"
  /\ preSnapshots = <<>>
  /\ preEnvSnapshot = Null
  /\ prePower = Null
  /\ preRegistry = <<>>
  /\ preHandlers = {}
  /\ preLog = {}

\* The variables of the two racing pollers while they are not under study.
RaceIdle ==
  /\ raceRegistry = <<>>
  /\ raceStart = <<>>
  /\ racePollers = <<>>
  /\ raceClock = 0

\* The registry under arbitrary calls while it is not under study.
RegIdle ==
  /\ regKind = "none"
  /\ regInstances = <<>>
  /\ regCalls = 0
  /\ regLast = [op |-> "none"]

\* The variables of checkInstanceStatus while it is not under study.
CheckIdle ==
  /\ checkCall = [variant |-> "none"]
  /\ checkFrame = [pc |-> "idle", i |-> 0, retryCount |-> 0, slept |-> FALSE]
  /\ checkHist = [fetches |-> 0, requests |-> 0, sawTarget |-> FALSE,
                  backToBack |-> FALSE, result |-> NoOutcome]

\* The groups of variables that later sections add, at rest.
OthersIdle == PreIdle /\ RaceIdle /\ RegIdle /\ CheckIdle

Init == BotInit /\ PermIdle /\ SimIdle /\ RetryIdle /\ PollIdle /\ StartIdle /\ GuardIdle /\ OthersIdle
Spec == Init /\ [][Next]_vars

\* ------------------------------------------------------------------------
\* Claims about Dedi-Bot/index.js (specification Spec)
\* ------------------------------------------------------------------------
Tracked(insts, id) == FindIndex(insts, id) >= 1
RecordOf(insts, id) == insts[FindIndex(insts, id)]

\* C1: the destroy path never issues the remote delete command for the id
\* that the guard has resolved as the bot's own host.
C1_NeverDeletesResolvedSelf ==
  \A e \in deleteLog : e.self # e.id

\* C2: while the self-host identity is unresolved (every probe failed and no
\* override id is configured) no remote delete command is issued.
C2_NoDeleteWhileUnknown ==
  \A e \in deleteLog : ~(e.self = Null /\ excludeInstanceId = Null)

\* C4: the creator stored by the first upsert for an id is unchanged by every
\* later upsert for that id.
C4_CreatorImmutable ==
  [][\A id \in InstanceIds :
       (Tracked(instances, id) /\ Tracked(instances', id))
         => RecordOf(instances', id).creator = RecordOf(instances, id).creator]_vars

\* C5: once a record's status is terminal, no later upsert changes the record.
C5_TerminalIsFinal ==
  [][\A id \in InstanceIds :
       (Tracked(instances, id)
          /\ RecordOf(instances, id).status \in TerminalStatuses)
         => (Tracked(instances', id)
               /\ RecordOf(instances', id) = RecordOf(instances, id))]_vars

\* ------------------------------------------------------------------------
\* dedi-bot/index.js: protection flag, /protect and /destroy
\* ------------------------------------------------------------------------
Admins == {"adm"}                   \* members holding ADMIN_ROLE_ID
Members == Users \cup Admins
BotLabel == "DISCORD-BOT"           \* label of the instance running the bot
ServerLabel == "srv"

PermShapes ==
  { [status |-> "pending", power_status |-> "stopped"],
    [status |-> "active",  power_status |-> "stopped"],
    [status |-> "active",  power_status |-> "running"],
    [status |-> "active",  power_status |-> "restoring"] }
PermExisting(label, shape, deleting) ==
  [exists |-> TRUE, label |-> label, status |-> shape.status,
   power_status |-> shape.power_status, deleting |-> deleting]
PermApiInstance(id) ==
  [id |-> id, label |-> permRemote[id].label, status |-> permRemote[id].status,
   power_status |-> permRemote[id].power_status]
\* listInstances() of dedi-bot/index.js: the provider's list, unfiltered
PermRemoteList ==
  LET present == SelectSeq(AllIds, LAMBDA id : permRemote[id].exists)
  IN [k \in 1..Len(present) |-> PermApiInstance(present[k])]
\* getInstance(instanceId): the instance, or the call throws
PermFetchOutcomes(id) ==
  (IF permRemote[id].exists
   THEN {[ok |-> TRUE, instance |-> PermApiInstance(id)]}
   ELSE {})
  \cup {[ok |-> FALSE, instance |-> Null]}

\* instanceState.protectInstance / isProtected
protectInstance(set, instanceId) == set \cup {instanceId}
isProtected(set, instanceId) == instanceId \in set

\* checkPermissions(interaction, 'destroy', instanceId).  Defined in the
\* source, called by no command and by no handler.
checkPermissions(member, instanceId) ==
  IF Tracked(permInstances, instanceId)
  THEN IF member \in Admins
       THEN ~isProtected(protectedInstances, instanceId)
       ELSE /\ RecordOf(permInstances, instanceId).creator = member
            /\ ~isProtected(protectedInstances, instanceId)
  ELSE FALSE

PermInit ==
  /\ permInstances = <<>>
  /\ protectedInstances = {}
  /\ permRemote = [id \in InstanceIds |->
       IF id = HostId
       THEN PermExisting(BotLabel, [status |-> "active", power_status |-> "running"], FALSE)
       ELSE Absent]
  /\ permCreated = 0
  /\ permMenus = {}
  /\ permVerifying = {}
  /\ permDeleteLog = {}

\* createCommand.execute: the instance is created and tracked.
PermCreate(user) ==
  /\ UNCHANGED notPerm
  /\ permCreated < MaxCreates
  /\ permCreated < Len(IdPool)
  /\ LET id == IdPool[permCreated + 1]
         shape == [status |-> "pending", power_status |-> "stopped"]
     IN /\ permRemote' = [permRemote EXCEPT ![id] = PermExisting(ServerLabel, shape, FALSE)]
        /\ permInstances' = trackInstance(permInstances, id, user,
                                          OrElse(shape.status, "creating"),
                                          PlaceholderIp)
  /\ permCreated' = permCreated + 1
  /\ UNCHANGED <<protectedInstances, permMenus, permVerifying, permDeleteLog>>

\* protectCommand.execute: admins only; offers every listed instance.
PermProtectCommand(member) ==
  /\ UNCHANGED notPerm
  /\ member \in Admins
  /\ LET active == SelectSeq(PermRemoteList, LAMBDA i : i.status # "destroyed")
         menu == [kind |-> "protect", ids |-> IdsOf(active)]
     IN /\ Len(active) > 0
        /\ Cardinality(permMenus \cup {menu}) <= MaxMenus
        /\ permMenus' = permMenus \cup {menu}
  /\ UNCHANGED <<permInstances, protectedInstances, permRemote, permCreated,
                 permVerifying, permDeleteLog>>

\* The 'protect_server' handler.
PermProtectSelect(menu, selectedId) ==
  /\ UNCHANGED notPerm
  /\ menu \in permMenus
  /\ menu.kind = "protect"
  /\ selectedId \in menu.ids
  /\ permMenus' = permMenus \ {menu}
  /\ protectedInstances' = protectInstance(protectedInstances, selectedId)
  /\ UNCHANGED <<permInstances, permRemote, permCreated, permVerifying,
                 permDeleteLog>>

\* destroyCommand.execute: offers the listed instances but the bot's own.
PermDestroyCommand ==
  /\ UNCHANGED notPerm
  /\ LET active == SelectSeq(PermRemoteList,
                     LAMBDA i : /\ i.status # "destroyed"
                                /\ i.power_status # "destroyed"
                                /\ i.label # BotLabel)
         menu == [kind |-> "destroy", ids |-> IdsOf(active)]
     IN /\ Len(active) > 0
        /\ Cardinality(permMenus \cup {menu}) <= MaxMenus
        /\ permMenus' = permMenus \cup {menu}
  /\ UNCHANGED <<permInstances, protectedInstances, permRemote, permCreated,
                 permVerifying, permDeleteLog>>

\* The 'destroy_server' handler up to the delete command; member is the
\* user who picked selectedId.
PermDestroySelect(member, menu, selectedId) ==
  /\ UNCHANGED notPerm
  /\ menu \in permMenus
  /\ menu.kind = "destroy"
  /\ selectedId \in menu.ids
  /\ permMenus' = permMenus \ {menu}
  /\ \E r \in PermFetchOutcomes(selectedId) :
       \/ /\ \/ ~r.ok                              \* getInstance throws
             \/ /\ r.ok
                /\ \/ r.instance.label = BotLabel
                   \/ r.instance.status = "pending"
                   \/ r.instance.power_status = "restoring"
          /\ UNCHANGED <<permRemote, permVerifying, permDeleteLog>>
       \/ /\ r.ok                                  \* deleteInstance throws
          /\ r.instance.label # BotLabel
          /\ r.instance.status # "pending"
          /\ r.instance.power_status # "restoring"
          /\ UNCHANGED <<permRemote, permVerifying, permDeleteLog>>
       \/ /\ r.ok                                  \* deleteInstance accepted
          /\ r.instance.label # BotLabel
          /\ r.instance.status # "pending"
          /\ r.instance.power_status # "restoring"
          /\ selectedId \notin permVerifying
          /\ permDeleteLog' = permDeleteLog \cup
               {[id |-> selectedId, member |-> member,
                 protected |-> isProtected(protectedInstances, selectedId)]}
          /\ permRemote' = [permRemote EXCEPT ![selectedId].deleting = TRUE]
          /\ permVerifying' = permVerifying \cup {selectedId}
  /\ UNCHANGED <<permInstances, protectedInstances, permCreated>>

\* The 'destroy_server' handler after its 3 s wait: the verifying fetch.
PermDestroyVerify(selectedId) ==
  /\ UNCHANGED notPerm
  /\ selectedId \in permVerifying
  /\ permVerifying' = permVerifying \ {selectedId}
  /\ \E r \in PermFetchOutcomes(selectedId) :
       IF r.ok
       THEN UNCHANGED permInstances            \* still there: "may take a few minutes"
       ELSE permInstances' = updateInstance(permInstances, selectedId,
                                            "destroyed", FALSE, Null)
  /\ UNCHANGED <<protectedInstances, permRemote, permCreated, permMenus,
                 permDeleteLog>>

PermRemoteChange(id, shape) ==
  /\ UNCHANGED notPerm
  /\ id # HostId
  /\ permRemote[id].exists
  /\ PermExisting(ServerLabel, shape, permRemote[id].deleting) # permRemote[id]
  /\ permRemote' = [permRemote EXCEPT ![id] =
                      PermExisting(ServerLabel, shape, permRemote[id].deleting)]
  /\ UNCHANGED <<permInstances, protectedInstances, permCreated, permMenus,
                 permVerifying, permDeleteLog>>

PermRemoteVanish(id) ==
  /\ UNCHANGED notPerm
  /\ permRemote[id].exists
  /\ permRemote[id].deleting
  /\ permRemote' = [permRemote EXCEPT ![id] = Absent]
  /\ UNCHANGED <<permInstances, protectedInstances, permCreated, permMenus,
                 permVerifying, permDeleteLog>>

PermNext ==
  \/ \E user \in Members : PermCreate(user)
  \/ \E member \in Members : PermProtectCommand(member)
  \/ \E menu \in permMenus : \E id \in menu.ids : PermProtectSelect(menu, id)
  \/ PermDestroyCommand
  \/ \E member \in Members : \E menu \in permMenus : \E id \in menu.ids :
       PermDestroySelect(member, menu, id)
  \/ \E id \in InstanceIds : PermDestroyVerify(id)
  \/ \E id \in InstanceIds : \E shape \in PermShapes : PermRemoteChange(id, shape)
  \/ \E id \in InstanceIds : PermRemoteVanish(id)

\* ------------------------------------------------------------------------
\* Claims about dedi-bot/index.js (specification SpecPerm)
\* ------------------------------------------------------------------------
\* C3: a Destroy requested by a non-admin for a protected instance issues no
\* remote delete command.
C3_ProtectedNotDestroyedByNonAdmin ==
  \A e \in permDeleteLog : ~(e.protected /\ e.member \notin Admins)

\* C32: a record is marked destroyed only once a fetch made after the delete
\* command has found the instance absent: no record is destroyed while the
\* remote instance still exists.
C32_DestroyedOnlyWhenAbsent ==
  \A k \in 1..Len(permInstances) :
    permInstances[k].status = "destroyed" =>
      ~permRemote[permInstances[k].id].exists

InitPerm ==
  PermInit /\ BotIdle /\ SimIdle /\ RetryIdle /\ PollIdle /\ StartIdle /\ GuardIdle /\ OthersIdle
SpecPerm == InitPerm /\ [][PermNext]_vars

\* ------------------------------------------------------------------------
\* dedi-bot-simple: instanceTracker.js and the /create command
\* ------------------------------------------------------------------------
MonitorMaxAttempts == 20       \* maxAttempts of monitorInstanceStatus

\* instanceTracker.logInstanceCreation(instanceId, userId, username, metadata)
logInstanceCreation(insts, instanceId, userId, ip) ==
  LET instanceData == [id |-> instanceId,
                       creator |-> userId,
                       status |-> "creating",
                       ip |-> OrElse(ip, Null)]
      existingIndex == FindIndex(insts, instanceId)
  IN IF existingIndex >= 1
     THEN [insts EXCEPT ![existingIndex] = instanceData]
     ELSE Append(insts, instanceData)

\* instanceTracker.updateInstance(instanceId, status, metadata)
trackerUpdateInstance(insts, instanceId, status, hasIp, ip) ==
  LET instanceIndex == FindIndex(insts, instanceId)
  IN IF instanceIndex >= 1
     THEN [insts EXCEPT ![instanceIndex] =
             [@ EXCEPT !.status = status,
                       !.ip = IF hasIp THEN ip ELSE @]]
     ELSE insts

\* instanceTracker.getActiveUserInstances(userId)
getActiveUserInstances(insts, userId) ==
  SelectSeq(insts, LAMBDA i : /\ i.status # "terminated"
                              /\ i.status # "destroyed"
                              /\ i.creator = userId)

SimApiInstance(id) ==
  [id |-> id, status |-> simRemote[id].status,
   power_status |-> simRemote[id].power_status, main_ip |-> simRemote[id].main_ip]

\* vultrWrapper.getInstance(instanceId): the instance, or the call throws
\* once its retries are used up.
SimFetchOutcomes(id) ==
  (IF simRemote[id].exists
   THEN {[ok |-> TRUE, instance |-> SimApiInstance(id)]}
   ELSE {})
  \cup {[ok |-> FALSE, instance |-> Null]}

SimInit ==
  /\ logData = <<>>
  /\ simRemote = [id \in InstanceIds |-> Absent]
  /\ simCreated = 0
  /\ simCreating = [u \in Users |-> 0]
  /\ monitors = [id \in InstanceIds |-> NoMonitor]
  /\ simList = [pc |-> "idle"]

\* /create up to its first await: the user has no active instance.  At most
\* limit instances are asked for in one run.
SimCreateBeginUpTo(user, limit) ==
  /\ UNCHANGED notSim
  /\ Len(getActiveUserInstances(logData, user)) = 0
  /\ simCreated + simCreating[user] < limit
  /\ simCreating' = [simCreating EXCEPT ![user] = @ + 1]
  /\ UNCHANGED <<logData, simRemote, simCreated, monitors, simList>>

\* /create after createInstanceFromSnapshot: the call threw (error reply), or
\* the instance is logged and its monitor started (first check by timer).
SimCreateFinishUpTo(user, limit) ==
  /\ UNCHANGED notSim
  /\ simCreating[user] > 0
  /\ simCreating' = [simCreating EXCEPT ![user] = @ - 1]
  /\ UNCHANGED simList
  /\ \/ UNCHANGED <<logData, simRemote, simCreated, monitors>>
     \/ /\ simCreated < limit
        /\ simCreated < Len(IdPool)
        /\ LET id == IdPool[simCreated + 1]
               shape == [status |-> "pending", power_status |-> "stopped",
                         main_ip |-> PlaceholderIp]
           IN /\ simRemote' = [simRemote EXCEPT ![id] = Existing(shape, FALSE)]
              /\ logData' = logInstanceCreation(logData, id, user,
                                                OrElse(shape.main_ip, "pending"))
              /\ monitors' = [monitors EXCEPT ![id] =
                                [pc |-> "scheduled", attempts |-> 0,
                                 reports |-> <<>>]]
        /\ simCreated' = simCreated + 1

\* The two steps of /create, for the one instance whose monitor is followed.
SimCreateBegin(user) == SimCreateBeginUpTo(user, MaxCreates)
SimCreateFinish(user) == SimCreateFinishUpTo(user, MaxCreates)

\* monitorInstanceStatus.checkStatus: one run of the timer callback.
MonitorCheck(id) ==
  /\ UNCHANGED notSim
  /\ monitors[id].pc = "scheduled"
  /\ IF monitors[id].attempts >= MonitorMaxAttempts
     THEN /\ monitors' = [monitors EXCEPT ![id].pc = "done"]
          /\ UNCHANGED logData
     ELSE \E r \in SimFetchOutcomes(id) :
            IF r.ok
            THEN /\ logData' = trackerUpdateInstance(logData, id,
                                 r.instance.power_status, TRUE, r.instance.main_ip)
                 /\ IF /\ r.instance.status = "active"
                       /\ r.instance.power_status = "running"
                    THEN monitors' = [monitors EXCEPT
                                        ![id].attempts = @ + 1,
                                        ![id].pc = "done",
                                        ![id].reports = Append(@, "Ready")]
                    ELSE monitors' = [monitors EXCEPT ![id].attempts = @ + 1]
            ELSE /\ monitors' = [monitors EXCEPT ![id].attempts = @ + 1]
                 /\ UNCHANGED logData
  /\ UNCHANGED <<simRemote, simCreated, simCreating, simList>>

SimRemoteChange(id, shape) ==
  /\ UNCHANGED notSim
  /\ simRemote[id].exists
  /\ Existing(shape, FALSE) # simRemote[id]
  /\ simRemote' = [simRemote EXCEPT ![id] = Existing(shape, FALSE)]
  /\ UNCHANGED <<logData, simCreated, simCreating, monitors, simList>>

SimNext ==
  \/ \E user \in Users : SimCreateBegin(user)
  \/ \E user \in Users : SimCreateFinish(user)
  \/ \E id \in InstanceIds : MonitorCheck(id)
  \/ \E id \in InstanceIds : \E shape \in RemoteShapes : SimRemoteChange(id, shape)

InitSimple ==
  SimInit /\ BotIdle /\ PermIdle /\ RetryIdle /\ PollIdle /\ StartIdle /\ GuardIdle /\ OthersIdle
SpecSimple == InitSimple /\ [][SimNext]_vars

\* ------------------------------------------------------------------------
\* Claims about the pollers
\* ------------------------------------------------------------------------
\* C6: every polling task that has ended has delivered exactly one terminal
\* outcome to its caller.
C6_EveryPollerReportsOnce ==
  \A id \in InstanceIds :
    monitors[id].pc = "done" => Len(monitors[id].reports) = 1

\* ------------------------------------------------------------------------
\* dedi-bot-simple/services/vultrWrapper.js : the retrying client
\* ------------------------------------------------------------------------
MaxRetriesBound == 2          \* largest options.maxRetries a caller passes
RetryDelays == {1, 5}         \* options.retryDelay a caller passes (ms)
RetryMultipliers == {2, 3}    \* options.retryMultiplier a caller passes
DefaultMaxRetries == 3        \* maxRetries = 3
DefaultRetryDelay == 1000     \* retryDelay = 1000
DefaultRetryMultiplier == 2   \* retryMultiplier = 2

\* What sits under the key the caller asks for (response.instance,
\* response.snapshot): nothing, null, an object without id, an object with id.
PropertyValues == {Undefined, Null, "noid", "i1", "i2"}
Truthy(v) == v \notin {Undefined, Null}
HasId(v) == v \in {"i1", "i2"}

\* What apiCall(params) does: resolves to a response (possibly undefined), or
\* rejects with a transient (network, 5xx) or a permanent (4xx) error.
Responses ==
  {NoResponse} \cup {[present |-> TRUE, property |-> v] : v \in PropertyValues}
ApiOutcomes ==
  {[resolved |-> TRUE, response |-> r, error |-> "none"] : r \in Responses}
  \cup {[resolved |-> FALSE, response |-> NoResponse, error |-> t] :
          t \in {"transient", "permanent"}}

\* The validateResponse callbacks the wrapper's functions pass.
Validators == {"none", "property", "propertyId"}
validateResponse(validator, response) ==
  CASE validator = "property" ->
         response.present /\ Truthy(response.property)
    [] validator = "propertyId" ->
         response.present /\ Truthy(response.property) /\ HasId(response.property)
    [] OTHER -> TRUE

\* propertyPath.split('.').reduce(...) for a one-key path
Extract(response) ==
  IF response.present /\ response.property # Undefined
  THEN response.property
  ELSE Undefined

\* A try block that would return whatever apiCall resolved to.
TryBlockUnchecked(opts, api) ==
  IF ~api.resolved
  THEN [threw |-> TRUE, tag |-> api.error, value |-> NoResponse]
  ELSE IF opts.propertyPath # Null
  THEN [threw |-> FALSE, tag |-> "ok",
        value |-> [extracted |-> Extract(api.response)]]
  ELSE [threw |-> FALSE, tag |-> "ok", value |-> api.response]

\* The try block of executeWithRetry once apiCall has settled.
TryBlock(opts, api) ==
  IF ~api.resolved
  THEN [threw |-> TRUE, tag |-> api.error, value |-> NoResponse]
  ELSE IF opts.validateResponse # "none"
          /\ ~validateResponse(opts.validateResponse, api.response)
  THEN [threw |-> TRUE, tag |-> "validation", value |-> NoResponse]
  ELSE IF opts.propertyPath # Null
  THEN IF Extract(api.response) = Undefined
       THEN [threw |-> TRUE, tag |-> "extract", value |-> NoResponse]
       ELSE [threw |-> FALSE, tag |-> "ok",
             value |-> [extracted |-> Extract(api.response)]]
  ELSE [threw |-> FALSE, tag |-> "ok", value |-> api.response]

\* A catch block that would break one pass later than the source does.
ShouldBreakLate(count, maxRetries) == count > maxRetries
\* if (retryCount >= maxRetries) break;
ShouldBreak(count, maxRetries) == count >= maxRetries

\* A catch block that would leave the delay as it is.
NextDelayFixed(d, retryMultiplier) == d
\* delay *= retryMultiplier
NextDelay(d, retryMultiplier) == d * retryMultiplier

\* Options of the calls made by the wrapper's functions.
CallerOptions ==
  [maxRetries : 0..MaxRetriesBound, retryDelay : RetryDelays,
   retryMultiplier : RetryMultipliers, validateResponse : Validators,
   propertyPath : {Null, "property"}]
GetSnapshotOptions ==
  [maxRetries |-> DefaultMaxRetries, retryDelay |-> DefaultRetryDelay,
   retryMultiplier |-> DefaultRetryMultiplier,
   validateResponse |-> "property", propertyPath |-> "property"]
CreateInstanceOptions ==
  [maxRetries |-> DefaultMaxRetries, retryDelay |-> DefaultRetryDelay,
   retryMultiplier |-> DefaultRetryMultiplier,
   validateResponse |-> "propertyId", propertyPath |-> "property"]


\* The local state of the wrapper function under way.
Locals ==
  [caller |-> caller, options |-> options, pc |-> pc, retryCount |-> retryCount,
   delay |-> delay, lastError |-> lastError, firstError |-> firstError,
   callOutcome |-> callOutcome]
Apply(st) ==
  /\ caller' = st.caller
  /\ options' = st.options
  /\ pc' = st.pc
  /\ retryCount' = st.retryCount
  /\ delay' = st.delay
  /\ lastError' = st.lastError
  /\ firstError' = st.firstError
  /\ callOutcome' = st.callOutcome

\* executeWithRetry(apiCall, params, options) down to its while loop.
Enter(st, name, opts) ==
  [st EXCEPT !.caller = name, !.options = opts, !.pc = "attempt",
             !.retryCount = 0, !.delay = opts.retryDelay, !.lastError = NoError]

\* executeWithRetry throws e to the function that called it.
Throws(st, e) ==
  CASE st.caller = "createInstance.snake" ->
         Enter([st EXCEPT !.firstError = e], "createInstance.kebab",
               CreateInstanceOptions)
    [] st.caller = "createInstance.kebab" ->
         [st EXCEPT !.pc = "done",
                    !.callOutcome =
                       [kind |-> "thrown",
                        error |-> [type |-> "combined", first |-> st.firstError,
                                   second |-> e]]]
    [] OTHER ->
         [st EXCEPT !.pc = "done",
                    !.callOutcome = [kind |-> "thrown", error |-> e]]

\* executeWithRetry returns v to the function that called it.
Returns(st, v) ==
  CASE st.caller = "getSnapshot" ->
         Enter(st, "createInstance.snake", CreateInstanceOptions)
    [] OTHER ->
         [st EXCEPT !.pc = "done",
                    !.callOutcome = [kind |-> "returned", value |-> v]]

RetryInit ==
  /\ caller = "none"
  /\ options = NoOptions
  /\ pc = "idle"
  /\ retryCount = 0
  /\ delay = 0
  /\ lastError = NoError
  /\ firstError = NoError
  /\ finalResponse = NoResponse
  /\ callOutcome = NoOutcome
  /\ requests = <<>>
  /\ sleeps = <<>>
  /\ acceptedAt = 0

\* A function of the wrapper calls executeWithRetry with its options.
Call(opts) ==
  /\ UNCHANGED notRetry
  /\ pc = "idle"
  /\ Apply(Enter(Locals, "executeWithRetry", opts))
  /\ UNCHANGED <<finalResponse, requests, sleeps, acceptedAt>>

\* createInstanceFromSnapshot up to its first await: getSnapshot(snapshotId).
CreateInstanceFromSnapshot ==
  /\ UNCHANGED notRetry
  /\ pc = "idle"
  /\ Apply(Enter(Locals, "getSnapshot", GetSnapshotOptions))
  /\ UNCHANGED <<finalResponse, requests, sleeps, acceptedAt>>

\* The calls whose apiCall is client.instances.createInstance.
CreateCallers == {"createInstance.snake", "createInstance.kebab"}

\* Whether the provider created an instance for the request: it did when it
\* answered with the instance, it did not when it refused the request, and
\* it may or may not have when the answer was lost (network error, timeout).
Accepted(name, api) ==
  IF name \notin CreateCallers THEN {FALSE}
  ELSE IF api.resolved
  THEN {api.response.present /\ HasId(api.response.property)}
  ELSE IF api.error = "transient" THEN BOOLEAN
  ELSE {FALSE}

\* One pass of the while loop: the apiCall settles, then the try block ends
\* in a return, or the catch block breaks or starts its sleep.
Attempt(api) ==
  /\ UNCHANGED notRetry
  /\ pc = "attempt"
  /\ \E acc \in Accepted(caller, api) :
       acceptedAt' = IF acc /\ acceptedAt = 0
                     THEN Len(requests) + 1
                     ELSE acceptedAt
  /\ LET r == TryBlock(options, api)
         e == [type |-> r.tag, attempt |-> Len(requests) + 1]
         caught == [Locals EXCEPT !.lastError = e]
     IN /\ requests' = Append(requests, [call |-> caller, ok |-> ~r.threw])
        /\ finalResponse' = IF r.threw THEN finalResponse ELSE api.response
        /\ IF ~r.threw
           THEN /\ Apply(Returns(Locals, r.value))
                /\ UNCHANGED sleeps
           ELSE IF ShouldBreak(retryCount, options.maxRetries)
           THEN /\ Apply(Throws(caught, caught.lastError))
                /\ UNCHANGED sleeps
           ELSE /\ Apply([caught EXCEPT !.pc = "sleeping"])
                /\ sleeps' = Append(sleeps, delay)

\* The timer of the catch block fires: backoff, count, loop test.
Wake ==
  /\ UNCHANGED notRetry
  /\ pc = "sleeping"
  /\ LET woken == [Locals EXCEPT
                     !.delay = NextDelay(delay, options.retryMultiplier),
                     !.retryCount = retryCount + 1]
     IN IF woken.retryCount <= options.maxRetries
        THEN Apply([woken EXCEPT !.pc = "attempt"])
        ELSE Apply(Throws(woken, woken.lastError))
  /\ UNCHANGED <<finalResponse, requests, sleeps, acceptedAt>>

RetryNext ==
  \/ \E opts \in CallerOptions : Call(opts)
  \/ CreateInstanceFromSnapshot
  \/ \E api \in ApiOutcomes : Attempt(api)
  \/ Wake

InitRetry ==
  RetryInit /\ BotIdle /\ PermIdle /\ SimIdle /\ PollIdle /\ StartIdle /\ GuardIdle /\ OthersIdle
SpecRetry == InitRetry /\ [][RetryNext]_vars


\* ------------------------------------------------------------------------
\* Claims about the retrying client
\* ------------------------------------------------------------------------
RECURSIVE Pow(_, _)
Pow(b, e) == IF e = 0 THEN 1 ELSE b * Pow(b, e - 1)

Failures == {k \in 1..Len(requests) : ~requests[k].ok}
DirectCall == caller = "executeWithRetry"

\* C7: a call whose operation fails n times (n <= maxRetries) and then
\* succeeds returns the value of the successful attempt after exactly n
\* sleeps, the k-th of them lasting retryDelay * retryMultiplier^(k-1).
C7_BackoffThenSuccess ==
  (DirectCall /\ callOutcome.kind = "returned") =>
    LET n == Len(requests) - 1
    IN /\ n <= options.maxRetries
       /\ Failures = 1..n
       /\ Len(sleeps) = n
       /\ \A k \in 1..n :
            sleeps[k] = options.retryDelay * Pow(options.retryMultiplier, k - 1)
       /\ callOutcome.value =
            IF options.propertyPath = Null
            THEN finalResponse
            ELSE [extracted |-> finalResponse.property]

\* A call that failed twice and then returned, after sleeps of 5 and 15.
C7_Witness ==
  /\ DirectCall
  /\ callOutcome.kind = "returned"
  /\ Failures = {1, 2}
  /\ Len(requests) = 3
  /\ sleeps = <<5, 15>>

\* C8: a call whose operation fails on every attempt makes exactly
\* maxRetries + 1 attempts, sleeps exactly maxRetries times, and throws the
\* error of its last attempt; a call that throws has returned no value.
C8_ExhaustedRetriesThrowLast ==
  /\ (DirectCall /\ callOutcome.kind = "thrown") =>
       /\ Len(requests) = options.maxRetries + 1
       /\ Failures = 1..Len(requests)
       /\ Len(sleeps) = options.maxRetries
       /\ callOutcome.error.type # "none"
       /\ callOutcome.error.attempt = Len(requests)
  /\ (DirectCall /\ Cardinality(Failures) = options.maxRetries + 1) =>
       callOutcome.kind = "thrown"

\* A call with maxRetries = 2 that has thrown the error of its third attempt.
C8_Witness ==
  /\ DirectCall
  /\ options.maxRetries = 2
  /\ callOutcome.kind = "thrown"
  /\ callOutcome.error.attempt = 3
  /\ Len(sleeps) = 2

\* C9: once the operation has failed with a permanent (non-transient) error
\* the call neither sleeps nor makes another attempt.
C9_PermanentFailureNotRetried ==
  lastError.type = "permanent" => pc \notin {"sleeping", "attempt"}

\* C10: one createInstanceFromSnapshot call sends at most one request with
\* the alternate (kebab-case) parameter keys.
C10_AtMostOneAlternateRequest ==
  Cardinality({k \in 1..Len(requests) :
                 requests[k].call = "createInstance.kebab"}) <= 1

\* A response the caller's validator rejects, or one that lacks the value
\* the caller's propertyPath names.
FailsChecks(opts, response) ==
  \/ ~validateResponse(opts.validateResponse, response)
  \/ /\ opts.propertyPath # Null
     /\ \/ ~response.present
        \/ response.property = Undefined

\* C33: executeWithRetry validates responses before it returns them: a pass
\* of its loop whose response the validator rejects, or whose response lacks
\* the value at propertyPath, is a failed attempt and returns nothing; a pass
\* that returns has a response the validator accepts and, when propertyPath
\* is set, returns exactly the value found at that path, never undefined.
C33_ReturnsOnlyValidatedResponses ==
  [][\A api \in ApiOutcomes :
       (DirectCall /\ api.resolved /\ Attempt(api)) =>
         /\ FailsChecks(options, api.response) =>
              /\ ~requests'[Len(requests')].ok
              /\ callOutcome'.kind # "returned"
              /\ lastError'.type \in {"validation", "extract"}
         /\ callOutcome'.kind = "returned" =>
              /\ validateResponse(options.validateResponse, api.response)
              /\ options.propertyPath # Null =>
                   /\ api.response.property # Undefined
                   /\ callOutcome'.value =
                        [extracted |-> api.response.property]
              /\ options.propertyPath = Null =>
                   callOutcome'.value = api.response]_vars

\* C33 happens: a call with a validator and a propertyPath has returned the
\* extracted value after an attempt that failed validation or extraction.
C33_Witness ==
  /\ DirectCall
  /\ options.validateResponse # "none"
  /\ options.propertyPath # Null
  /\ callOutcome.kind = "returned"
  /\ lastError.type \in {"validation", "extract"}
  /\ callOutcome.value = [extracted |-> finalResponse.property]

\* C34: one createInstanceFromSnapshot call creates at most one instance:
\* once the provider has accepted a create request of the call, the call
\* sends no further create request, be it a retry or the kebab-case one.
C34_NoCreateRequestAfterAccepted ==
  acceptedAt # 0 =>
    \A k \in (acceptedAt + 1)..Len(requests) :
      requests[k].call \notin CreateCallers

\* ------------------------------------------------------------------------
\* The polling loops with their timing
\*   waitForInstanceStatus and startInstanceStatusPolling of Dedi-Bot/index.js
\* ------------------------------------------------------------------------
FetchLatencies == {0, 20000}         \* time one fetch may take, in ms
WaitTimeouts == {30000, 40000}       \* timeout arguments a caller passes, in ms
CheckInterval == 15000               \* const checkInterval = 15000
FirstPollDelay == 10000              \* setTimeout(pollStatus, 10000)
PollInterval == 45000                \* setTimeout(pollStatus, 45000)
StatusMaxWaitTime == 30 * 60 * 1000  \* const maxWaitTime = 30 * 60 * 1000

\* What one getInstance call of a polling loop yields: the instance, or an
\* error that is transient (network, 5xx) or permanent (4xx).
PollFetchOutcomes ==
  {[ok |-> TRUE, instance |-> shape, error |-> "none"] : shape \in RemoteShapes}
  \cup {[ok |-> FALSE, instance |-> Null, error |-> e] :
          e \in {"transient", "permanent"}}

PollInit ==
  /\ pollKind = "none"
  /\ pollPc = "idle"
  /\ clock = 0
  /\ pollTimeout = 0
  /\ maxAttempts = 0
  /\ pollTarget = Null
  /\ pendingDelay = 0
  /\ timers = 0
  /\ fetched = 0
  /\ permanentSeen = FALSE
  /\ errorSeen = FALSE
  /\ startCommands = 0
  /\ pollResult = NoOutcome
  /\ lastFetch = "none"
  /\ pollRegistry = <<>>

\* waitForInstanceStatus(instanceId, targetPowerStatus, timeout) is called.
WaitStart(target, timeout) ==
  /\ UNCHANGED notPoll
  /\ pollPc = "idle"
  /\ pollKind' = "wait"
  /\ pollPc' = "loop"
  /\ pollTimeout' = timeout
  /\ pollTarget' = target
  /\ UNCHANGED <<clock, maxAttempts, pendingDelay, timers, fetched, permanentSeen, errorSeen,
                 startCommands, pollResult, lastFetch, pollRegistry>>

\* One pass of the while loop of waitForInstanceStatus, up to its sleep: the
\* loop test, the fetch (taking some latency) and the comparison.
WaitPass ==
  /\ UNCHANGED notPoll
  /\ pollKind = "wait"
  /\ pollPc = "loop"
  /\ IF clock < pollTimeout
     THEN \E latency \in FetchLatencies : \E r \in PollFetchOutcomes :
            /\ clock' = clock + latency
            /\ fetched' = fetched + 1
            /\ permanentSeen' = (permanentSeen \/ r.error = "permanent")
            /\ IF r.ok /\ r.instance.power_status = pollTarget
               THEN /\ pollPc' = "done"
                    /\ pollResult' = [kind |-> "Converged", ip |-> r.instance.main_ip]
                    /\ UNCHANGED pendingDelay
               ELSE /\ pollPc' = "sleeping"
                    /\ pendingDelay' = CheckInterval
                    /\ UNCHANGED pollResult
     ELSE /\ pollPc' = "done"
          /\ pollResult' = [kind |-> "TimedOut"]
          /\ UNCHANGED <<clock, fetched, permanentSeen, pendingDelay>>
  /\ UNCHANGED <<pollKind, pollTimeout, maxAttempts, pollTarget, timers, errorSeen,
                 startCommands, lastFetch, pollRegistry>>

\* The sleep at the end of a pass ends.
WaitSleep ==
  /\ UNCHANGED notPoll
  /\ pollKind = "wait"
  /\ pollPc = "sleeping"
  /\ clock' = clock + pendingDelay
  /\ timers' = timers + 1
  /\ pollPc' = "loop"
  /\ UNCHANGED <<pollKind, pollTimeout, maxAttempts, pollTarget, pendingDelay, fetched,
                 permanentSeen, errorSeen, startCommands, pollResult, lastFetch,
                 pollRegistry>>

\* startInstanceStatusPolling(...) is called: the first poll is set on a timer.
StatusPollingStart ==
  /\ UNCHANGED notPoll
  /\ pollPc = "idle"
  /\ pollKind' = "create"
  /\ pollPc' = "timer"
  /\ pollTimeout' = StatusMaxWaitTime
  /\ pendingDelay' = FirstPollDelay
  /\ UNCHANGED <<clock, maxAttempts, pollTarget, timers, fetched, permanentSeen, errorSeen,
                 startCommands, pollResult, lastFetch, pollRegistry>>

\* The pending timer fires and startInstanceStatusPolling.pollStatus runs.
StatusPollRun ==
  /\ UNCHANGED notPoll
  /\ pollKind = "create"
  /\ pollPc = "timer"
  /\ timers' = timers + 1
  /\ LET fired == clock + pendingDelay
     IN IF fired > pollTimeout
        THEN /\ clock' = fired
             /\ pollPc' = "done"
             /\ pollResult' = [kind |-> "TimedOut"]
             /\ UNCHANGED <<fetched, permanentSeen, startCommands, pendingDelay>>
        ELSE \E latency \in FetchLatencies : \E r \in PollFetchOutcomes :
               /\ clock' = fired + latency
               /\ fetched' = fetched + 1
               /\ permanentSeen' = (permanentSeen \/ r.error = "permanent")
               /\ IF r.ok /\ IsReady(r.instance)
                  THEN /\ pollPc' = "done"
                       /\ pollResult' = [kind |-> "Converged",
                                         ip |-> r.instance.main_ip]
                       /\ UNCHANGED <<startCommands, pendingDelay>>
                  ELSE IF r.ok
                  THEN /\ startCommands' =
                            IF /\ r.instance.status = "active"
                               /\ r.instance.power_status = "stopped"
                            THEN startCommands + 1
                            ELSE startCommands
                       /\ pendingDelay' = PollInterval
                       /\ UNCHANGED <<pollPc, pollResult>>
                  ELSE IF fired + latency < pollTimeout
                  THEN /\ pendingDelay' = PollInterval
                       /\ UNCHANGED <<pollPc, pollResult, startCommands>>
                  ELSE /\ pollPc' = "done"
                       /\ pollResult' = [kind |-> "ApiErrors"]
                       /\ UNCHANGED <<startCommands, pendingDelay>>
  /\ UNCHANGED <<pollKind, pollTimeout, maxAttempts, pollTarget, errorSeen, lastFetch,
                 pollRegistry>>

\* ---- startInstanceDestructionPolling of Dedi-Bot/index.js ----
PolledId == IdPool[1]                   \* the instance a polling loop watches
DestroyFirstDelay == 5000               \* setTimeout(pollStatus, 5000)
DestroyInterval == 15000                \* setTimeout(pollStatus, 15000)
DestroyHeldInterval == 20000            \* setTimeout(pollStatus, 20000)
DestroyMaxWaitTime == 10 * 60 * 1000    \* const maxWaitTime = 10 * 60 * 1000

\* The registry when the destroy handler starts the polling: the instance is
\* tracked (created by this process) or not (found on the provider's list).
DestroyRegistries ==
  {<<>>} \cup {trackInstance(<<>>, PolledId, u, "running", RealIp) : u \in Users}

\* What one getInstance call of the destruction polling yields: the instance
\* (held by a provider-side process or not), or an error with its HTTP status.
DestroyFetchOutcomes ==
  {[ok |-> TRUE, held |-> h, error |-> "none"] : h \in BOOLEAN}
  \cup {[ok |-> FALSE, held |-> FALSE, error |-> e] : e \in {"404", "403", "500"}}

\* A catch block that would take only a 403 as proof of destruction.
TreatedAsDestroyedOnly403(error) == error = "403"
\* error.response.status === 404 || error.response.status === 403
TreatedAsDestroyed(error) == error \in {"404", "403"}

\* startInstanceDestructionPolling(...) is called after the delete command
\* was accepted: the first poll is set on a timer.
DestructionPollingStart(registry) ==
  /\ UNCHANGED notPoll
  /\ pollPc = "idle"
  /\ pollKind' = "destroy"
  /\ pollPc' = "timer"
  /\ pollTimeout' = DestroyMaxWaitTime
  /\ pendingDelay' = DestroyFirstDelay
  /\ pollRegistry' = registry
  /\ UNCHANGED <<clock, maxAttempts, pollTarget, timers, fetched, permanentSeen, errorSeen,
                 startCommands, pollResult, lastFetch>>

\* The pending timer fires and startInstanceDestructionPolling.pollStatus runs.
DestructionPollRun ==
  /\ UNCHANGED notPoll
  /\ pollKind = "destroy"
  /\ pollPc = "timer"
  /\ timers' = timers + 1
  /\ LET fired == clock + pendingDelay
     IN IF fired > pollTimeout
        THEN /\ clock' = fired
             /\ pollPc' = "done"
             /\ pollResult' = [kind |-> "TimedOut"]
             /\ UNCHANGED <<fetched, lastFetch, pendingDelay, pollRegistry>>
        ELSE \E latency \in FetchLatencies : \E r \in DestroyFetchOutcomes :
               /\ clock' = fired + latency
               /\ fetched' = fetched + 1
               /\ lastFetch' = IF r.ok THEN "ok" ELSE r.error
               /\ IF r.ok
                  THEN /\ pendingDelay' = IF r.held THEN DestroyHeldInterval
                                                    ELSE DestroyInterval
                       /\ UNCHANGED <<pollPc, pollResult, pollRegistry>>
                  ELSE IF TreatedAsDestroyed(r.error)
                  THEN /\ pollPc' = "done"
                       /\ pollResult' = [kind |-> "Converged", ip |-> Null]
                       /\ pollRegistry' = updateInstance(pollRegistry, PolledId,
                                                         "destroyed", FALSE, Null)
                       /\ UNCHANGED pendingDelay
                  ELSE IF fired + latency < pollTimeout
                  THEN /\ pendingDelay' = DestroyHeldInterval
                       /\ UNCHANGED <<pollPc, pollResult, pollRegistry>>
                  ELSE /\ pollPc' = "done"
                       /\ pollResult' = [kind |-> "ApiErrors"]
                       /\ UNCHANGED <<pendingDelay, pollRegistry>>
  /\ UNCHANGED <<pollKind, pollTimeout, maxAttempts, pollTarget, permanentSeen, errorSeen,
                 startCommands>>

\* ---- snapshot polling: startSnapshotStatusPolling of Dedi-Bot/index.js and
\* ---- monitorSnapshotStatus of vultrWrapper.js with its caller monitorSnapshot
SnapshotFirstDelay == 15000               \* setTimeout(pollStatus, 15000)
SnapshotInterval == 30000                 \* setTimeout(pollStatus, 30000)
SnapshotMaxWaitTime == 30 * 60 * 1000     \* const maxWaitTime = 30 * 60 * 1000
MonitorSnapshotInterval == 30000          \* setTimeout(resolve, 30000)
MonitorSnapshotAttempts == {2, 3}         \* maxAttempts arguments a caller passes

\* What one look at the snapshot yields: its status ("missing" when the list
\* does not hold it), or the call throws.
SnapshotFetchOutcomes ==
  {[ok |-> TRUE, status |-> st] :
     st \in {"missing", "pending", "complete", "error", "failed"}}
  \cup {[ok |-> FALSE, status |-> Null]}

\* startSnapshotStatusPolling(...) is called: the first poll is set on a timer.
SnapshotPollingStart ==
  /\ UNCHANGED notPoll
  /\ pollPc = "idle"
  /\ pollKind' = "snapshot"
  /\ pollPc' = "timer"
  /\ pollTimeout' = SnapshotMaxWaitTime
  /\ pendingDelay' = SnapshotFirstDelay
  /\ UNCHANGED <<clock, maxAttempts, pollTarget, timers, fetched, permanentSeen,
                 errorSeen, startCommands, pollResult, lastFetch, pollRegistry>>

\* The pending timer fires and startSnapshotStatusPolling.pollStatus runs.
SnapshotPollRun ==
  /\ UNCHANGED notPoll
  /\ pollKind = "snapshot"
  /\ pollPc = "timer"
  /\ timers' = timers + 1
  /\ LET fired == clock + pendingDelay
     IN IF fired > pollTimeout
        THEN /\ clock' = fired
             /\ pollPc' = "done"
             /\ pollResult' = [kind |-> "TimedOut"]
             /\ UNCHANGED <<fetched, errorSeen, pendingDelay>>
        ELSE \E latency \in FetchLatencies : \E r \in SnapshotFetchOutcomes :
               /\ clock' = fired + latency
               /\ fetched' = fetched + 1
               /\ errorSeen' = (errorSeen \/ r.status = "error")
               /\ IF r.ok /\ r.status = "complete"
                  THEN /\ pollPc' = "done"
                       /\ pollResult' = [kind |-> "Converged", ip |-> Null]
                       /\ UNCHANGED pendingDelay
                  ELSE IF r.ok /\ r.status \in {"error", "failed"}
                  THEN /\ pollPc' = "done"
                       /\ pollResult' = [kind |-> "Rejected"]
                       /\ UNCHANGED pendingDelay
                  ELSE IF r.ok \/ fired + latency < pollTimeout
                  THEN /\ pendingDelay' = SnapshotInterval
                       /\ UNCHANGED <<pollPc, pollResult>>
                  ELSE /\ pollPc' = "done"
                       /\ pollResult' = [kind |-> "ApiErrors"]
                       /\ UNCHANGED pendingDelay
  /\ UNCHANGED <<pollKind, pollTimeout, maxAttempts, pollTarget, permanentSeen,
                 startCommands, lastFetch, pollRegistry>>

\* monitorSnapshot(snapshotId, interaction) calls
\* monitorSnapshotStatus(snapshotId, statusCallback, maxAttempts).
MonitorSnapshotStart(attempts) ==
  /\ UNCHANGED notPoll
  /\ pollPc = "idle"
  /\ pollKind' = "monitorSnapshot"
  /\ pollPc' = "loop"
  /\ maxAttempts' = attempts
  /\ UNCHANGED <<clock, pollTimeout, pollTarget, pendingDelay, timers, fetched,
                 permanentSeen, errorSeen, startCommands, pollResult, lastFetch,
                 pollRegistry>>

\* One pass of the for loop of monitorSnapshotStatus, up to its sleep; when
\* the loop ends, what monitorSnapshot tells the user.
MonitorSnapshotPass ==
  /\ UNCHANGED notPoll
  /\ pollKind = "monitorSnapshot"
  /\ pollPc = "loop"
  /\ IF fetched < maxAttempts
     THEN \E latency \in FetchLatencies :
          \E r \in {o \in SnapshotFetchOutcomes : o.status # "missing"} :
            /\ clock' = clock + latency
            /\ fetched' = fetched + 1
            /\ errorSeen' = (errorSeen \/ r.status = "error")
            /\ IF r.ok /\ r.status = "complete"
               THEN /\ pollPc' = "done"
                    /\ pollResult' = [kind |-> "Converged", ip |-> Null]
                    /\ UNCHANGED pendingDelay
               ELSE /\ pollPc' = "sleeping"
                    /\ pendingDelay' = MonitorSnapshotInterval
                    /\ UNCHANGED pollResult
     ELSE /\ pollPc' = "done"
          /\ pollResult' = [kind |-> "Unknown"]
          /\ UNCHANGED <<clock, fetched, errorSeen, pendingDelay>>
  /\ UNCHANGED <<pollKind, pollTimeout, maxAttempts, pollTarget, timers,
                 permanentSeen, startCommands, lastFetch, pollRegistry>>

\* The sleep at the end of a pass of monitorSnapshotStatus ends.
MonitorSnapshotSleep ==
  /\ UNCHANGED notPoll
  /\ pollKind = "monitorSnapshot"
  /\ pollPc = "sleeping"
  /\ clock' = clock + pendingDelay
  /\ timers' = timers + 1
  /\ pollPc' = "loop"
  /\ UNCHANGED <<pollKind, pollTimeout, maxAttempts, pollTarget, pendingDelay,
                 fetched, permanentSeen, errorSeen, startCommands, pollResult,
                 lastFetch, pollRegistry>>

PollNext ==
  \/ \E target \in {"running", "stopped"} : \E timeout \in WaitTimeouts :
       WaitStart(target, timeout)
  \/ WaitPass
  \/ WaitSleep
  \/ StatusPollingStart
  \/ StatusPollRun
  \/ \E registry \in DestroyRegistries : DestructionPollingStart(registry)
  \/ DestructionPollRun
  \/ SnapshotPollingStart
  \/ SnapshotPollRun
  \/ \E attempts \in MonitorSnapshotAttempts : MonitorSnapshotStart(attempts)
  \/ MonitorSnapshotPass
  \/ MonitorSnapshotSleep

InitPoll ==
  PollInit /\ BotIdle /\ PermIdle /\ SimIdle /\ RetryIdle /\ StartIdle /\ GuardIdle /\ OthersIdle
SpecPoll == InitPoll /\ [][PollNext]_vars


\* ------------------------------------------------------------------------
\* Claims about the polling loops (specification SpecPoll)
\* ------------------------------------------------------------------------
\* The interval between two polls of the loop that runs.
IntervalOf(kind) == IF kind = "wait" THEN CheckInterval ELSE PollInterval

\* C11: a poll whose predicate holds on its first fetch returns Converged
\* with no timer delay between its start and its result.
C11_FirstFetchConvergesWithoutDelay ==
  (pollResult.kind = "Converged" /\ fetched = 1) => timers = 0

\* C12: a poll that returns TimedOut does so at an elapsed time t with
\* timeout <= t < timeout + interval.
C12_TimedOutWithinOneInterval ==
  pollResult.kind = "TimedOut" =>
    /\ pollTimeout <= clock
    /\ clock < pollTimeout + IntervalOf(pollKind)

\* C13: once a fetch has failed with a permanent error the loop has ended and
\* has surfaced the failure: no sleep, no further fetch, neither Converged nor
\* TimedOut.
C13_PermanentFailureAbortsPoll ==
  permanentSeen =>
    /\ pollPc = "done"
    /\ pollResult.kind \notin {"Converged", "TimedOut"}

\* C14: during the polling of one Create at most one remote start command is
\* sent, however many polls read the instance active and stopped.
C14_OneStartPerCreate ==
  startCommands <= 1


C16_SnapshotErrorRejects ==
  errorSeen =>
    /\ pollPc = "done"
    /\ pollResult.kind = "Rejected"


\* ------------------------------------------------------------------------
\* The Start operation
\*   Dedi-Bot/index.js : startCommand, the 'start_server' handler, startInstance
\*   dedi-bot/commands/public/start.js : execute
\* ------------------------------------------------------------------------
StartIds == {IdPool[1], IdPool[2]}
PowerStatuses == {"running", "stopped"}

\* The record the bot holds for id (the instances are tracked).
StartRecord(id) == RecordOf(startRegistry, id)

\* One remote start command, with who asked for it and what the provider
\* and the registry said about the instance when it was sent.
StartCall(call, id, user) ==
  [call |-> call, id |-> id, user |-> user,
   creator |-> StartRecord(id).creator,
   remoteRunning |-> startRemote[id] = "running",
   recordRunning |-> StartRecord(id).status = "running"]

\* A Start handler suspended at an await: before the remote call ("reply")
\* or until the remote call and its wait have settled ("remote"); before is
\* the status of the record when the handler was invoked.
StartHandler(id, user, at) ==
  [id |-> id, user |-> user, at |-> at, before |-> StartRecord(id).status]

\* Two instances, each running or stopped at the provider and recorded as
\* running or stopped by the bot: the first created by u1, the second by u2
\* or, with the tracker of dedi-bot, found by /list and logged with the
\* creator 'unknown'.
StartInit ==
  /\ startVariant \in {"Dedi-Bot", "dedi-bot"}
  /\ startRemote \in [StartIds -> PowerStatuses]
  /\ \E st \in [StartIds -> PowerStatuses] :
       startRegistry =
         IF startVariant = "Dedi-Bot"
         THEN trackInstance(trackInstance(<<>>, IdPool[1], "u1", st[IdPool[1]],
                                          RealIp),
                            IdPool[2], "u2", st[IdPool[2]], RealIp)
         ELSE trackerUpdateInstance(
                trackerUpdateInstance(
                  logInstanceCreation(
                    logInstanceCreation(<<>>, IdPool[1], "u1", RealIp),
                    IdPool[2], UnknownUser, RealIp),
                  IdPool[1], st[IdPool[1]], FALSE, Null),
                IdPool[2], st[IdPool[2]], FALSE, Null)
  /\ startMenus = {}
  /\ startWaiting = {}
  /\ startLog = {}

\* startCommand.execute: the menu offers the instances listed as stopped.
StartCommand ==
  /\ UNCHANGED notStart
  /\ startVariant = "Dedi-Bot"
  /\ LET stoppedInstances == {id \in StartIds : startRemote[id] = "stopped"}
     IN IF stoppedInstances = {}
        THEN UNCHANGED startMenus
        ELSE /\ Cardinality(startMenus \cup {stoppedInstances}) <= MaxMenus
             /\ startMenus' = startMenus \cup {stoppedInstances}
  /\ UNCHANGED <<startVariant, startRemote, startRegistry, startWaiting, startLog>>

\* The 'start_server' handler and startInstance up to waitForInstanceStatus,
\* for whoever uses the menu: the start command is sent (and accepted or
\* refused by the provider).
StartSelect(user, menu, startServerId) ==
  /\ UNCHANGED notStart
  /\ startVariant = "Dedi-Bot"
  /\ menu \in startMenus
  /\ startServerId \in menu
  /\ Cardinality(startLog) < MaxStarts
  /\ startMenus' = startMenus \ {menu}
  /\ startLog' = startLog \cup {StartCall("start", startServerId, user)}
  /\ \E accepted \in BOOLEAN :
       startWaiting' =
         IF accepted
         THEN startWaiting \cup {StartHandler(startServerId, user, "remote")}
         ELSE startWaiting
  /\ UNCHANGED <<startVariant, startRemote, startRegistry>>

\* startInstance after waitForInstanceStatus returned.
StartWaitDone(h) ==
  /\ UNCHANGED notStart
  /\ startVariant = "Dedi-Bot"
  /\ h \in startWaiting
  /\ startWaiting' = startWaiting \ {h}
  /\ UNCHANGED startLog
  /\ \E success \in BOOLEAN :
       /\ success => startRemote[h.id] = "running"
       /\ startRegistry' = IF success
                           THEN updateInstance(startRegistry, h.id, "running",
                                               FALSE, Null)
                           ELSE startRegistry
  /\ UNCHANGED <<startVariant, startRemote, startMenus>>

\* start.js execute up to 'await interaction.editReply': the checks against
\* the tracker, then status 'starting'.
StartExecute(user, instanceId) ==
  /\ UNCHANGED notStart
  /\ startVariant = "dedi-bot"
  /\ IF \/ ~Tracked(startRegistry, instanceId)
        \/ StartRecord(instanceId).creator \notin {user, UnknownUser}
        \/ StartRecord(instanceId).status = "running"
     THEN UNCHANGED <<startRegistry, startWaiting>>
     ELSE /\ startRegistry' = trackerUpdateInstance(startRegistry, instanceId,
                                                    "starting", FALSE, Null)
          /\ startWaiting' = startWaiting
                               \cup {StartHandler(instanceId, user, "reply")}
  /\ UNCHANGED <<startVariant, startRemote, startMenus, startLog>>

\* start.js execute resumes after the reply: vultrWrapper.startInstance
\* sends the start command.
StartExecuteSend(h) ==
  /\ UNCHANGED notStart
  /\ startVariant = "dedi-bot"
  /\ h \in startWaiting
  /\ h.at = "reply"
  /\ Cardinality(startLog) < MaxStarts
  /\ startLog' = startLog \cup {StartCall("start", h.id, h.user)}
  /\ startWaiting' = (startWaiting \ {h}) \cup {[h EXCEPT !.at = "remote"]}
  /\ UNCHANGED <<startVariant, startRemote, startRegistry, startMenus>>

\* start.js execute after vultrWrapper.startInstance settled: started, not
\* running after the last attempt of checkInstanceStatus, or the call threw.
StartExecuteDone(h, outcome) ==
  /\ UNCHANGED notStart
  /\ startVariant = "dedi-bot"
  /\ h \in startWaiting
  /\ h.at = "remote"
  /\ startWaiting' = startWaiting \ {h}
  /\ UNCHANGED startLog
  /\ outcome = "started" => startRemote[h.id] = "running"
  /\ startRegistry' =
       CASE outcome = "started" ->
              trackerUpdateInstance(startRegistry, h.id, "running", TRUE,
                                    RealIp)
         [] outcome = "threw" ->
              trackerUpdateInstance(startRegistry, h.id, "stopped", FALSE,
                                    Null)
         [] OTHER -> startRegistry
  /\ UNCHANGED <<startVariant, startRemote, startMenus>>

\* The provider powers an instance on or off.
StartPowerChange(id, power) ==
  /\ UNCHANGED notStart
  /\ startVariant # "none"
  /\ startRemote[id] # power
  /\ startRemote' = [startRemote EXCEPT ![id] = power]
  /\ UNCHANGED <<startVariant, startRegistry, startMenus, startWaiting, startLog>>

StartNext ==
  \/ StartCommand
  \/ \E user \in Users : \E menu \in startMenus : \E id \in menu :
       StartSelect(user, menu, id)
  \/ \E h \in startWaiting : StartWaitDone(h)
  \/ \E user \in Users : \E id \in StartIds : StartExecute(user, id)
  \/ \E h \in startWaiting : StartExecuteSend(h)
  \/ \E h \in startWaiting :
       \E outcome \in {"started", "notYet", "threw"} :
         StartExecuteDone(h, outcome)
  \/ \E id \in StartIds : \E power \in PowerStatuses : StartPowerChange(id, power)

InitStart ==
  StartInit /\ BotIdle /\ PermIdle /\ SimIdle /\ RetryIdle /\ PollIdle
  /\ GuardIdle /\ OthersIdle
SpecStart == InitStart /\ [][StartNext]_vars

\* C17: no remote start command is sent for an instance that is running and
\* is recorded as running.
C17_NoStartWhileRunning ==
  \A e \in startLog :
    ~(e.call = "start" /\ e.remoteRunning /\ e.recordRunning)


\* C21: once the convergence wait of a Start has ended (no handler of the
\* instance is under way) the registry does not show the in-flight status
\* 'starting' for it.
C21_TimedOutLeavesNoInFlightStatus ==
  \A id \in StartIds :
    (\A h \in startWaiting : h.id # id)
      => StartRecord(id).status # "starting"

\* C36: when the remote command of a Start fails (the wrapper throws) the
\* registry status of the instance is reverted: after the failed operation
\* it is the status the record had before the operation was invoked.
C36_FailedStartRevertsStatus ==
  [][\A h \in startWaiting :
       StartExecuteDone(h, "threw") =>
         RecordOf(startRegistry', h.id).status = h.before]_vars

\* C25: every remote start command was asked for by the recorded creator of
\* the instance.
C25_StartOnlyByCreator ==
  \A e \in startLog : e.call = "start" => e.user = e.creator

\* C27: the registry shows 'starting' for an id only after a start command
\* for that id has been sent.
C27_InFlightOnlyAfterCommand ==
  \A id \in StartIds :
    StartRecord(id).status = "starting"
      => \E e \in startLog : e.call = "start" /\ e.id = id


\* ------------------------------------------------------------------------
\* SelfProtectionGuard, step by step
\*   Dedi-Bot/index.js : listInstances, isCurrentServer,
\*   getCurrentServerInstanceId.  Every await gives way to the other calls
\*   under way: a probe is sent in the step that finds the cache empty and
\*   its answer is assigned to the cache in a later step.
\* ------------------------------------------------------------------------
ListCallers == 1..MaxListCalls

\* response.instances of vultr.instances.listInstances(): the host first.
GuardListing == SubSeq(AllIds, 1, 3)

\* Values of process.env.EXCLUDE_INSTANCE_ID: unset, the host's id, or the id
\* of another instance.
Overrides == {Null, HostId, IdPool[1]}

NoListCall == [pc |-> "idle", k |-> 0, filteredInstances |-> <<>>]

\* The loop of listInstances() after isCurrentServer answered isCurrent for
\* the instance at position k.
AfterAnswer(call, isCurrent) ==
  [pc |-> "loop", k |-> call.k + 1,
   filteredInstances |-> IF isCurrent
                         THEN call.filteredInstances
                         ELSE Append(call.filteredInstances,
                                     GuardListing[call.k])]

GuardInit ==
  /\ instances = <<>>
  /\ currentServerInstanceId = Null
  /\ excludeInstanceId \in Overrides
  /\ remote = [id \in InstanceIds |-> Absent]
  /\ created = 0
  /\ menus = {}
  /\ pollers = [p \in PollerIds |-> NoPoller]
  /\ deleteLog = {}
  /\ listCalls = [p \in ListCallers |-> NoListCall]
  /\ probeCount = 0
  /\ guardLog = {}
  /\ returnedLists = {}

\* listInstances(): the provider's list arrived, the loop begins.
ListInstancesBegin(p) ==
  /\ UNCHANGED notGuard
  /\ listCalls[p].pc = "idle"
  /\ listCalls' = [listCalls EXCEPT ![p] = [NoListCall EXCEPT !.pc = "loop",
                                                              !.k = 1]]
  /\ UNCHANGED <<currentServerInstanceId, probeCount, guardLog, returnedLists>>

\* isCurrentServer(instance.id) up to its first await: with the cache empty
\* the probe is sent, otherwise the cached id is compared.
IsCurrentServerCall(p) ==
  /\ UNCHANGED notGuard
  /\ listCalls[p].pc = "loop"
  /\ listCalls[p].k <= Len(GuardListing)
  /\ IF currentServerInstanceId = Null
     THEN /\ probeCount' = probeCount + 1
          /\ listCalls' = [listCalls EXCEPT ![p].pc = "probing"]
     ELSE /\ UNCHANGED probeCount
          /\ listCalls' =
               [listCalls EXCEPT ![p] =
                  AfterAnswer(@, currentServerInstanceId = GuardListing[@.k])]
  /\ UNCHANGED <<currentServerInstanceId, guardLog, returnedLists>>

\* isCurrentServer(instance.id) after getCurrentServerInstanceId() settled:
\* the result is assigned to the cache and compared.
ProbeAnswered(p, probe) ==
  /\ UNCHANGED notGuard
  /\ listCalls[p].pc = "probing"
  /\ LET instanceId == GuardListing[listCalls[p].k]
         resolved == getCurrentServerInstanceId(probe)
     IN /\ currentServerInstanceId' = resolved
        /\ listCalls' = [listCalls EXCEPT ![p] =
                           AfterAnswer(@, resolved = instanceId)]
        /\ guardLog' = guardLog \cup
             {[instanceId |-> instanceId, probe |-> probe,
               override |-> excludeInstanceId,
               isCurrent |-> resolved = instanceId]}
  /\ UNCHANGED <<probeCount, returnedLists>>

\* listInstances() returns the filtered list.
ListInstancesReturn(p) ==
  /\ UNCHANGED notGuard
  /\ listCalls[p].pc = "loop"
  /\ listCalls[p].k > Len(GuardListing)
  /\ listCalls' = [listCalls EXCEPT ![p].pc = "returned"]
  /\ returnedLists' = returnedLists \cup
       {[ids |-> {listCalls[p].filteredInstances[i] :
                    i \in 1..Len(listCalls[p].filteredInstances)},
         selfHost |-> currentServerInstanceId]}
  /\ UNCHANGED <<currentServerInstanceId, probeCount, guardLog>>

GuardNext ==
  \/ \E p \in ListCallers : ListInstancesBegin(p)
  \/ \E p \in ListCallers : IsCurrentServerCall(p)
  \/ \E p \in ListCallers : \E probe \in ProbeOutcomes : ProbeAnswered(p, probe)
  \/ \E p \in ListCallers : ListInstancesReturn(p)

InitGuard ==
  GuardInit /\ PermIdle /\ SimIdle /\ RetryIdle /\ PollIdle /\ StartIdle
  /\ OthersIdle
SpecGuard == InitGuard /\ [][GuardNext]_vars

\* C18: over any interleaving of isCurrentServer calls the metadata endpoint
\* is probed at most once.
C18_ProbedAtMostOnce == probeCount <= 1

\* C19: an isCurrentServer(c) call whose probe failed while an override id
\* is configured answers true exactly when c is the override id.
C19_FallsBackToOverride ==
  \A e \in guardLog :
    (e.probe = "failed" /\ e.override # Null)
      => (e.isCurrent <=> e.instanceId = e.override)

\* C19 happens: with an override configured a probe failed and the call
\* under way answered true, for the override id.
C19_Witness ==
  \E e \in guardLog :
    /\ e.probe = "failed" /\ e.override # Null
    /\ e.isCurrent /\ e.instanceId = e.override
    /\ currentServerInstanceId = e.override

\* C20: a list returned by listInstances while the self-host id is resolved
\* does not contain that id.
C20_ResolvedSelfHostNotListed ==
  \A r \in returnedLists : r.selfHost # Null => r.selfHost \notin r.ids

\* ------------------------------------------------------------------------
\* The preconditions of Create, Restore and Snapshot
\*   Dedi-Bot/index.js : createCommand, restoreCommand, snapshotCommand
\*   dedi-bot/commands/public/start.js : the create-snapshot command
\* ------------------------------------------------------------------------
SnapshotStatuses == {"complete", "pending"}

\* response.snapshots of vultr.snapshots.listSnapshots(), sorted newest
\* first by getSnapshots().
SnapshotLists ==
  {<<>>}
    \cup {<<[id |-> "s1", status |-> st]>> : st \in SnapshotStatuses}
    \cup {<<[id |-> "s1", status |-> st1], [id |-> "s2", status |-> st2]>> :
            st1 \in SnapshotStatuses, st2 \in SnapshotStatuses}

\* snapshots.find(snap => snap.id === snapshotId), Null when there is none.
FindSnapshot(snapshots, snapshotId) ==
  IF \E k \in 1..Len(snapshots) : snapshots[k].id = snapshotId
  THEN snapshots[CHOOSE k \in 1..Len(snapshots) :
                   snapshots[k].id = snapshotId].status
  ELSE Null

\* getPublicSnapshots(), every snapshot carrying the [PUBLIC] prefix.
getPublicSnapshots(snapshots) ==
  SelectSeq(snapshots, LAMBDA snapshot : snapshot.status = "complete")

\* The instance a snapshot is asked of, and the id the provider gives to the
\* instance a Create makes.
SnapshotSubject == IdPool[1]
CreatedId == IdPool[2]

\* The remote create command for snapshotId, as the provider finds it.
CreateCall(snapshotId) ==
  [call |-> "create", snapshot |-> snapshotId,
   exists |-> FindSnapshot(preSnapshots, snapshotId) # Null,
   complete |-> FindSnapshot(preSnapshots, snapshotId) = "complete"]

\* The remote create-snapshot command, as the provider finds the instance.
SnapshotCall ==
  [call |-> "createSnapshot", instance |-> SnapshotSubject,
   running |-> prePower = "running"]

\* What a create command does to the registry: nothing when the provider
\* refuses it, a new record when it answers with an instance.
CreateOutcome(user, snapshotId, accepted) ==
  /\ accepted => FindSnapshot(preSnapshots, snapshotId) # Null
  /\ preRegistry' = IF accepted
                    THEN trackInstance(preRegistry, CreatedId, user, "pending",
                                       PlaceholderIp)
                    ELSE preRegistry

PreInit ==
  /\ preVariant \in {"Dedi-Bot", "dedi-bot"}
  /\ preSnapshots \in SnapshotLists
  /\ preEnvSnapshot \in {Null, "s2"}
  /\ prePower \in PowerStatuses
  /\ \E st \in PowerStatuses :
       preRegistry =
         IF preVariant = "Dedi-Bot"
         THEN trackInstance(<<>>, SnapshotSubject, "u1", st, RealIp)
         ELSE trackerUpdateInstance(
                logInstanceCreation(<<>>, SnapshotSubject, "u1", RealIp),
                SnapshotSubject, st, FALSE, Null)
  /\ preHandlers = {}
  /\ preLog = {}

\* createCommand.execute: the snapshot named by VULTR_SNAPSHOT_ID, or else
\* the newest one, is passed to createInstanceFromSnapshot.
PreCreate(user) ==
  /\ UNCHANGED notPre
  /\ preVariant = "Dedi-Bot"
  /\ ~Tracked(preRegistry, CreatedId)
  /\ IF Len(preSnapshots) = 0
     THEN UNCHANGED <<preRegistry, preLog>>
     ELSE LET snapshotId == OrElse(preEnvSnapshot, preSnapshots[1].id)
          IN /\ preLog' = preLog \cup {CreateCall(snapshotId)}
             /\ \E accepted \in BOOLEAN :
                  CreateOutcome(user, snapshotId, accepted)
  /\ UNCHANGED <<preVariant, preSnapshots, preEnvSnapshot, prePower,
                 preHandlers>>

\* restoreCommand.execute: the snapshot must be among the public ones and
\* complete.
PreRestore(user, snapshotId) ==
  /\ UNCHANGED notPre
  /\ preVariant = "Dedi-Bot"
  /\ ~Tracked(preRegistry, CreatedId)
  /\ LET selectedSnapshot ==
           FindSnapshot(getPublicSnapshots(preSnapshots), snapshotId)
     IN IF selectedSnapshot = Null \/ selectedSnapshot # "complete"
        THEN UNCHANGED <<preRegistry, preLog>>
        ELSE /\ preLog' = preLog \cup {CreateCall(snapshotId)}
             /\ \E accepted \in BOOLEAN :
                  CreateOutcome(user, snapshotId, accepted)
  /\ UNCHANGED <<preVariant, preSnapshots, preEnvSnapshot, prePower,
                 preHandlers>>

\* snapshotCommand.execute up to 'await interaction.editReply': the instance
\* fetched from the provider must be running.
PreSnapshot ==
  /\ UNCHANGED notPre
  /\ preVariant = "Dedi-Bot"
  /\ preHandlers' = IF prePower # "running"
                    THEN preHandlers
                    ELSE preHandlers \cup {SnapshotSubject}
  /\ UNCHANGED <<preVariant, preSnapshots, preEnvSnapshot, prePower,
                 preRegistry, preLog>>

\* The create-snapshot command of start.js up to 'await
\* interaction.editReply': the tracked instance must be recorded as stopped.
PreCreateSnapshot ==
  /\ UNCHANGED notPre
  /\ preVariant = "dedi-bot"
  /\ preHandlers' =
       IF \/ ~Tracked(preRegistry, SnapshotSubject)
          \/ RecordOf(preRegistry, SnapshotSubject).status # "stopped"
       THEN preHandlers
       ELSE preHandlers \cup {SnapshotSubject}
  /\ UNCHANGED <<preVariant, preSnapshots, preEnvSnapshot, prePower,
                 preRegistry, preLog>>

\* Either handler resumes after its reply and sends the create-snapshot
\* command (createSnapshotFromInstance, vultrWrapper.createSnapshot).
PreSnapshotSend(instanceId) ==
  /\ UNCHANGED notPre
  /\ instanceId \in preHandlers
  /\ preHandlers' = preHandlers \ {instanceId}
  /\ preLog' = preLog \cup {SnapshotCall}
  /\ UNCHANGED <<preVariant, preSnapshots, preEnvSnapshot, prePower,
                 preRegistry>>

\* The provider powers the instance on or off.
PrePowerChange(power) ==
  /\ UNCHANGED notPre
  /\ preVariant # "none"
  /\ prePower # power
  /\ prePower' = power
  /\ UNCHANGED <<preVariant, preSnapshots, preEnvSnapshot, preRegistry,
                 preHandlers, preLog>>

PreNext ==
  \/ \E user \in Users : PreCreate(user)
  \/ \E user \in Users : \E snapshotId \in {"s1", "s2"} :
       PreRestore(user, snapshotId)
  \/ PreSnapshot
  \/ PreCreateSnapshot
  \/ \E instanceId \in preHandlers : PreSnapshotSend(instanceId)
  \/ \E power \in PowerStatuses : PrePowerChange(power)

InitPre ==
  PreInit /\ BotIdle /\ PermIdle /\ SimIdle /\ RetryIdle /\ PollIdle
  /\ StartIdle /\ GuardIdle /\ RaceIdle /\ RegIdle /\ CheckIdle
SpecPre == InitPre /\ [][PreNext]_vars

\* C22: every remote create command names a snapshot that exists and is
\* complete.
C22_CreateOnlyFromCompleteSnapshot ==
  \A e \in preLog : e.call = "create" => (e.exists /\ e.complete)

\* C24: every remote create-snapshot command reaches an instance whose power
\* status is running.
C24_SnapshotOnlyOfRunningInstance ==
  \A e \in preLog : e.call = "createSnapshot" => e.running


\* ------------------------------------------------------------------------
\* Claims about the simple bot's /create and its monitor
\* ------------------------------------------------------------------------
\* C23: a monitor has reported the server ready only on a fetch that read a
\* real ip (the fetch's ip is the one the monitor stored in the record).
C23_ReadyOnlyWithRealIp ==
  \A id \in InstanceIds :
    (\E k \in 1..Len(monitors[id].reports) : monitors[id].reports[k] = "Ready")
      => /\ Tracked(logData, id)
         /\ RecordOf(logData, id).ip \notin {Null, "", PlaceholderIp}

\* Concurrent /create commands: up to SimMaxCreates of them, by either
\* user, each suspended between its check and its logInstanceCreation.  The
\* monitors are started and not followed further here (SpecSimple does).
\* ------------------------------------------------------------------------
\* /list of the simple bot: the sync of the tracker with the provider's list
\* ------------------------------------------------------------------------
\* vultrWrapper.listInstances(): the provider's instances, in its order
SimRemoteList ==
  SelectSeq([k \in 1..Len(AllIds) |->
               IF simRemote[AllIds[k]].exists
               THEN SimApiInstance(AllIds[k])
               ELSE [id |-> Null]],
            LAMBDA i : i.id # Null)

\* vultrInstances.forEach(...): trackedInstances is what the handler read
\* before it called the provider.
RECURSIVE TrackerSyncListed(_, _, _, _)
TrackerSyncListed(insts, vultrInstances, k, trackedIds) ==
  IF k > Len(vultrInstances)
  THEN insts
  ELSE LET v == vultrInstances[k]
           next == IF v.id \in trackedIds
                   THEN trackerUpdateInstance(insts, v.id, v.power_status,
                                              TRUE, v.main_ip)
                   ELSE IF v.power_status = "running"
                        THEN logInstanceCreation(insts, v.id, UnknownUser,
                                                 v.main_ip)
                        ELSE insts
       IN TrackerSyncListed(next, vultrInstances, k + 1, trackedIds)

\* trackedInstances.forEach(...): tracked instances the list lacks
RECURSIVE TrackerSyncMissing(_, _, _, _)
TrackerSyncMissing(insts, trackedInstances, k, vultrIds) ==
  IF k > Len(trackedInstances)
  THEN insts
  ELSE LET t == trackedInstances[k]
           next == IF t.id \notin vultrIds
                   THEN trackerUpdateInstance(insts, t.id, "terminated",
                                              FALSE, Null)
                   ELSE insts
       IN TrackerSyncMissing(next, trackedInstances, k + 1, vultrIds)

\* /list up to its await: trackedInstances = getActiveInstances(), then
\* vultrService.listInstances() is called.
SimListBegin ==
  /\ UNCHANGED notSim
  /\ simList.pc = "idle"
  /\ simList' = [pc |-> "called", tracked |-> getActiveInstances(logData)]
  /\ UNCHANGED <<logData, simRemote, simCreated, simCreating, monitors>>

\* The provider answers the list call with the instances it holds, or the
\* call throws (the handler goes on with the tracker's data).
SimListAnswer ==
  /\ UNCHANGED notSim
  /\ simList.pc = "called"
  /\ \/ simList' = [pc |-> "answered", tracked |-> simList.tracked,
                    list |-> SimRemoteList]
     \/ simList' = [pc |-> "idle"]
  /\ UNCHANGED <<logData, simRemote, simCreated, simCreating, monitors>>

\* /list resumes with the list: both forEach loops run, the reply is sent.
SimListSync ==
  /\ UNCHANGED notSim
  /\ simList.pc = "answered"
  /\ logData' =
       TrackerSyncMissing(
         TrackerSyncListed(logData, simList.list, 1, IdsOf(simList.tracked)),
         simList.tracked, 1, IdsOf(simList.list))
  /\ simList' = [pc |-> "idle"]
  /\ UNCHANGED <<simRemote, simCreated, simCreating, monitors>>

SimListNext ==
  \/ \E user \in Users : SimCreateBegin(user)
  \/ \E user \in Users : SimCreateFinish(user)
  \/ \E id \in InstanceIds : \E shape \in RemoteShapes :
       SimRemoteChange(id, shape)
  \/ SimListBegin
  \/ SimListAnswer
  \/ SimListSync

SpecSimpleList == InitSimple /\ [][SimListNext]_vars

\* C35: after a /list sync whose list call succeeded every non-terminal
\* record has an id that the list holds: tracked instances the list lacks
\* have been marked terminated.
C35_SyncLeavesOnlyListedActive ==
  [][SimListSync =>
       \A k \in 1..Len(logData') :
         logData'[k].status \notin TerminalStatuses =>
           logData'[k].id \in IdsOf(simList.list)]_vars

SimCreatesNext ==
  \/ \E user \in Users : SimCreateBeginUpTo(user, SimMaxCreates)
  \/ \E user \in Users : SimCreateFinishUpTo(user, SimMaxCreates)
  \/ \E id \in InstanceIds : \E shape \in RemoteShapes :
       SimRemoteChange(id, shape)

SpecSimpleCreates == InitSimple /\ [][SimCreatesNext]_vars

\* C26: the log never holds two non-terminal records with the same creator.
C26_OneActiveInstancePerUser ==
  \A user \in Users : Len(getActiveUserInstances(logData, user)) <= 1


\* ------------------------------------------------------------------------
\* Claims about the registry of Dedi-Bot/index.js
\* ------------------------------------------------------------------------
\* C28: every status stored in a registry record is one of the values of the
\* transition graph (creating, active, stopping, stopped, starting,
\* terminated, destroyed).
C28_OnlyGraphStatusesStored ==
  \A k \in 1..Len(instances) :
    instances[k].status \in {"creating", "active", "stopping", "stopped",
                             "starting", "terminated", "destroyed"}


\* C30: a /list command leaves every record the registry already holds
\* unchanged.
C30_ListLeavesRecordsUnchanged ==
  [][ListCommand =>
       /\ Len(instances') >= Len(instances)
       /\ \A k \in 1..Len(instances) : instances'[k] = instances[k]]_vars


\* ------------------------------------------------------------------------
\* Two destruction pollers of one instance
\*   Dedi-Bot/index.js : startInstanceDestructionPolling.pollStatus,
\*   instanceState.updateInstance.  Records carry lastUpdated here, which
\*   updateInstance sets to the time of the write.
\* ------------------------------------------------------------------------
RacePollers == 1..2
RacedId == IdPool[1]

RaceRecord(id, status) ==
  [id |-> id, creator |-> "u1", status |-> status, ip |-> RealIp,
   lastUpdated |-> 0]

\* instanceState.instances when the pollers start: the instance is tracked
\* (in any status) or not, beside another instance's record or alone.
RaceRegistries ==
  LET own == {<<>>} \cup {<<RaceRecord(RacedId, st)>> :
                            st \in {"running", "stopped", "destroyed"}}
      other == {<<>>, <<RaceRecord(IdPool[2], "running")>>}
  IN {o \o r : o \in other, r \in own} \cup {r \o o : o \in other, r \in own}

\* A variant of the write that leaves lastUpdated as it was.
updateInstanceAtUnstamped(insts, instanceId, status, now) ==
  updateInstance(insts, instanceId, status, FALSE, Null)

\* instanceState.updateInstance(instanceId, status) called at time now:
\* { ...record, status, lastUpdated: new Date().toISOString() }.
updateInstanceAt(insts, instanceId, status, now) ==
  LET instanceIndex == FindIndex(insts, instanceId)
  IN IF instanceIndex >= 1
     THEN [updateInstance(insts, instanceId, status, FALSE, Null)
             EXCEPT ![instanceIndex].lastUpdated = now]
     ELSE insts

RaceInit ==
  /\ raceStart \in RaceRegistries
  /\ raceRegistry = raceStart
  /\ racePollers = [p \in RacePollers |-> [pc |-> "polling", wroteAt |-> 0]]
  /\ raceClock = 0

\* pollStatus of poller p finds the instance gone (getInstance answered
\* null, or threw 404 or 403) and awaits its final reply.
RaceObserve(p) ==
  /\ UNCHANGED notRace
  /\ racePollers[p].pc = "polling"
  /\ racePollers' = [racePollers EXCEPT ![p].pc = "observed"]
  /\ UNCHANGED <<raceRegistry, raceStart, raceClock>>

\* pollStatus of poller p resumes: instanceState.updateInstance(instanceId,
\* 'destroyed'), and the poller stops.
RaceWrite(p) ==
  /\ UNCHANGED notRace
  /\ racePollers[p].pc = "observed"
  /\ raceRegistry' = updateInstanceAt(raceRegistry, RacedId, "destroyed",
                                      raceClock)
  /\ racePollers' = [racePollers EXCEPT ![p] =
                       [pc |-> "done", wroteAt |-> raceClock]]
  /\ UNCHANGED <<raceStart, raceClock>>

\* Time passes.
RaceTick ==
  /\ UNCHANGED notRace
  /\ racePollers # <<>>
  /\ raceClock < MaxRaceClock
  /\ raceClock' = raceClock + 1
  /\ UNCHANGED <<raceRegistry, raceStart, racePollers>>

RaceNext ==
  \/ \E p \in RacePollers : RaceObserve(p)
  \/ \E p \in RacePollers : RaceWrite(p)
  \/ RaceTick

InitRace ==
  RaceInit /\ BotIdle /\ PermIdle /\ SimIdle /\ RetryIdle /\ PollIdle
  /\ StartIdle /\ GuardIdle /\ PreIdle /\ RegIdle /\ CheckIdle
SpecRace == InitRace /\ [][RaceNext]_vars

BothWrote == \A p \in RacePollers : racePollers[p].pc = "done"

\* The registry the pollers started from, with the raced instance's record
\* (if there is one) set to destroyed and stamped with the time at.
DestroyedAt(at) ==
  [k \in 1..Len(raceStart) |->
     IF raceStart[k].id = RacedId
     THEN [raceStart[k] EXCEPT !.status = "destroyed", !.lastUpdated = at]
     ELSE raceStart[k]]

LaterWrite ==
  IF racePollers[1].wroteAt >= racePollers[2].wroteAt
  THEN racePollers[1].wroteAt
  ELSE racePollers[2].wroteAt

RegKinds == {"instanceState", "instanceTracker"}
RegIds == {IdPool[1], IdPool[2]}
\* status arguments the callers pass (instance.status || 'creating', a
\* power_status, or a literal)
RegTrackStatuses == {Null, "running"}
RegUpdateStatuses == {"running", "stopped", "destroyed"}
RegIps == {Null, RealIp}

\* what updateInstance returns: the record it wrote, or null
updateInstanceReturn(insts, instanceId, written) ==
  LET instanceIndex == FindIndex(insts, instanceId)
  IN IF instanceIndex >= 1 THEN written[instanceIndex] ELSE Null

\* instances: [] in the bot; { instances: [] } written by
\* initializeLogIfNeeded in the tracker
RegInit ==
  /\ regKind \in RegKinds
  /\ regInstances = <<>>
  /\ regCalls = 0
  /\ regLast = [op |-> "none"]

\* instanceState.trackInstance(id, userId, username, status, { ip })
RegTrackInstance(id, user, status, ip) ==
  /\ UNCHANGED notReg
  /\ regKind = "instanceState"
  /\ regCalls < MaxRegCalls
  /\ regCalls' = regCalls + 1
  /\ regInstances' = trackInstance(regInstances, id, user, status, ip)
  /\ regLast' = [op |-> "trackInstance", id |-> id, before |-> regInstances,
                 returned |-> [id |-> id, creator |-> user,
                               status |-> OrElse(status, "creating"),
                               ip |-> OrElse(ip, Null)]]
  /\ UNCHANGED regKind

\* instanceTracker.logInstanceCreation(id, userId, username, { ip })
RegLogInstanceCreation(id, user, ip) ==
  /\ UNCHANGED notReg
  /\ regKind = "instanceTracker"
  /\ regCalls < MaxRegCalls
  /\ regCalls' = regCalls + 1
  /\ regInstances' = logInstanceCreation(regInstances, id, user, ip)
  /\ regLast' = [op |-> "logInstanceCreation", id |-> id, before |-> regInstances,
                 returned |-> [id |-> id, creator |-> user,
                               status |-> "creating",
                               ip |-> OrElse(ip, Null)]]
  /\ UNCHANGED regKind

\* updateInstance(id, status) or updateInstance(id, status, { ip }) of
\* either registry
RegUpdateInstance(id, status, hasIp, ip) ==
  /\ UNCHANGED notReg
  /\ regKind \in RegKinds
  /\ regCalls < MaxRegCalls
  /\ regCalls' = regCalls + 1
  /\ LET written == IF regKind = "instanceState"
                    THEN updateInstance(regInstances, id, status, hasIp, ip)
                    ELSE trackerUpdateInstance(regInstances, id, status, hasIp, ip)
     IN /\ regInstances' = written
        /\ regLast' = [op |-> "updateInstance", id |-> id, before |-> regInstances,
                       returned |-> updateInstanceReturn(regInstances, id, written)]
  /\ UNCHANGED regKind

RegNext ==
  \/ \E id \in RegIds, user \in Users, status \in RegTrackStatuses,
        ip \in RegIps : RegTrackInstance(id, user, status, ip)
  \/ \E id \in RegIds, user \in Users, ip \in RegIps :
        RegLogInstanceCreation(id, user, ip)
  \/ \E id \in RegIds, status \in RegUpdateStatuses, hasIp \in BOOLEAN,
        ip \in RegIps : RegUpdateInstance(id, status, hasIp, ip)

InitRegistry ==
  RegInit /\ BotIdle /\ PermIdle /\ SimIdle /\ RetryIdle /\ PollIdle
  /\ StartIdle /\ GuardIdle /\ PreIdle /\ RaceIdle /\ CheckIdle
SpecRegistry == InitRegistry /\ [][RegNext]_vars

\* C31: the instance id is the key of the registry: after any sequence of
\* trackInstance, logInstanceCreation and updateInstance calls no two
\* records carry the same id.
C31_IdIsKey ==
  \A j, k \in 1..Len(regInstances) : j # k => regInstances[j].id # regInstances[k].id

\* C31 happens: an id that was already tracked beside another one has been
\* tracked again.
C31_Witness ==
  /\ regLast.op \in {"trackInstance", "logInstanceCreation"}
  /\ Len(regLast.before) = 2
  /\ Tracked(regLast.before, regLast.id)
  /\ Len(regInstances) = 2

\* C39: updateInstance(id, status, metadata) changes at most the record whose
\* id is id: the registry keeps its length and every record of another id,
\* and when no record has that id the registry is unchanged and the call
\* returns null.
C39_UpdateChangesOnlyItsRecord ==
  regLast.op = "updateInstance" =>
    /\ Len(regInstances) = Len(regLast.before)
    /\ \A k \in 1..Len(regLast.before) :
         regLast.before[k].id # regLast.id =>
           regInstances[k] = regLast.before[k]
    /\ ~Tracked(regLast.before, regLast.id) =>
         /\ regInstances = regLast.before
         /\ regLast.returned = Null

\* C39 happens: updateInstance has rewritten one of two records.
C39_Witness ==
  /\ regLast.op = "updateInstance"
  /\ Len(regLast.before) = 2
  /\ Tracked(regLast.before, regLast.id)
  /\ regInstances # regLast.before
  /\ regLast.returned = RecordOf(regInstances, regLast.id)


\* ------------------------------------------------------------------------
\* checkInstanceStatus(instanceId, expectedStatus, expectedPowerStatus,
\* maxAttempts)
\*   dedi-bot-simple/services/vultrWrapper.js : checkInstanceStatus over
\*   getInstance, which goes through executeWithRetry
\*   dedi-bot-simple/index.js, dedi-bot/index.js : checkInstanceStatus over
\*   getInstance, which calls the provider once
\* ------------------------------------------------------------------------
CheckVariants == {"vultrWrapper", "dedi-bot-simple", "dedi-bot"}

\* Options of the executeWithRetry call made by vultrWrapper.getInstance.
GetInstanceOptions ==
  [maxRetries |-> DefaultMaxRetries, retryDelay |-> DefaultRetryDelay,
   retryMultiplier |-> DefaultRetryMultiplier,
   validateResponse |-> "property", propertyPath |-> "property"]

\* What one request to the provider's getInstance endpoint yields: a
\* response with the instance, a response without it, or an error.
CheckApiOutcomes ==
  {o \in ApiOutcomes : o.resolved => (/\ o.response.present
                                      /\ o.response.property \in {Null, "i1"})}

\* getInstance once its request has settled: of the wrapper, the try block
\* of executeWithRetry; of the bots, 'return response.instance', whose
\* absence makes 'instance.status' throw in checkInstanceStatus.
CheckFetchThrew(variant, api) ==
  IF variant = "vultrWrapper"
  THEN TryBlock(GetInstanceOptions, api).threw
  ELSE ~(api.resolved /\ api.response.present /\ Truthy(api.response.property))

\* The two comparisons of checkInstanceStatus.
IsTarget(call, instance) ==
  \/ /\ call.expectedPowerStatus = "stopped"
     /\ instance.power_status = "stopped"
  \/ /\ instance.status = call.expectedStatus
     /\ instance.power_status = call.expectedPowerStatus

\* A loop test that would allow one pass more.
CheckGoesOnOnceMore(i, attempts) == i <= attempts
\* i < maxAttempts
CheckGoesOn(i, attempts) == i < attempts

\* The for loop's test for index i and what follows it up to the next
\* await: another getInstance call, or 'return false'.  slept tells whether
\* the 3 s sleep was made since the previous fetch.
CheckPass(call, i, slept, hist) ==
  IF CheckGoesOn(i, call.maxAttempts)
  THEN [frame |-> [pc |-> "request", i |-> i, retryCount |-> 0,
                   slept |-> FALSE],
        hist |-> [hist EXCEPT
                    !.fetches = @ + 1,
                    !.requests = @ + 1,
                    !.backToBack = @ \/ (hist.fetches > 0 /\ ~slept)]]
  ELSE [frame |-> [pc |-> "done", i |-> i, retryCount |-> 0, slept |-> slept],
        hist |-> [hist EXCEPT
                    !.result = [kind |-> "returned", value |-> FALSE]]]

CheckInit ==
  /\ checkCall = [variant |-> "none"]
  /\ checkFrame = [pc |-> "idle", i |-> 0, retryCount |-> 0, slept |-> FALSE]
  /\ checkHist = [fetches |-> 0, requests |-> 0, sawTarget |-> FALSE,
                  backToBack |-> FALSE, result |-> NoOutcome]

\* checkInstanceStatus(id, 'active', expectedPowerStatus, maxAttempts) is
\* called and runs up to its first await.
CheckStart(variant, expectedPowerStatus, attempts) ==
  /\ UNCHANGED notCheck
  /\ checkFrame.pc = "idle"
  /\ LET call == [variant |-> variant, expectedStatus |-> "active",
                  expectedPowerStatus |-> expectedPowerStatus,
                  maxAttempts |-> attempts]
         next == CheckPass(call, 0, FALSE, checkHist)
     IN /\ checkCall' = call
        /\ checkFrame' = next.frame
        /\ checkHist' = next.hist

\* The request to the provider settles.  The fetch yields the instance
\* (target state: return true; else the 3 s sleep starts), or the fetch
\* fails; executeWithRetry of the wrapper first backs off and asks again.
CheckAnswer(api, instance) ==
  /\ UNCHANGED notCheck
  /\ checkFrame.pc = "request"
  /\ UNCHANGED checkCall
  /\ IF ~CheckFetchThrew(checkCall.variant, api)
     THEN /\ checkHist' =
               [checkHist EXCEPT
                  !.sawTarget = @ \/ IsTarget(checkCall, instance),
                  !.result = IF IsTarget(checkCall, instance)
                             THEN [kind |-> "returned", value |-> TRUE]
                             ELSE @]
          /\ checkFrame' =
               [checkFrame EXCEPT
                  !.pc = IF IsTarget(checkCall, instance) THEN "done"
                         ELSE "sleep"]
     ELSE IF /\ checkCall.variant = "vultrWrapper"
             /\ ~ShouldBreak(checkFrame.retryCount, GetInstanceOptions.maxRetries)
     THEN /\ checkFrame' = [checkFrame EXCEPT !.pc = "backoff"]
          /\ UNCHANGED checkHist
     ELSE IF checkCall.variant = "vultrWrapper"
     THEN /\ checkFrame' = [checkFrame EXCEPT !.pc = "sleep"]
          /\ UNCHANGED checkHist
     ELSE LET next == CheckPass(checkCall, checkFrame.i + 1, FALSE, checkHist)
          IN /\ checkFrame' = next.frame
             /\ checkHist' = next.hist

\* The backoff sleep of executeWithRetry ends: retryCount++, next request.
CheckBackoffDone ==
  /\ UNCHANGED notCheck
  /\ checkFrame.pc = "backoff"
  /\ checkFrame' = [checkFrame EXCEPT !.pc = "request", !.retryCount = @ + 1]
  /\ checkHist' = [checkHist EXCEPT !.requests = @ + 1]
  /\ UNCHANGED checkCall

\* The 3 s sleep of checkInstanceStatus ends: i++, loop test.
CheckSleepDone ==
  /\ UNCHANGED notCheck
  /\ checkFrame.pc = "sleep"
  /\ LET next == CheckPass(checkCall, checkFrame.i + 1, TRUE, checkHist)
     IN /\ checkFrame' = next.frame
        /\ checkHist' = next.hist
  /\ UNCHANGED checkCall

CheckNext ==
  \/ \E variant \in CheckVariants, power \in PowerStatuses,
        attempts \in 1..MaxCheckAttempts : CheckStart(variant, power, attempts)
  \/ \E api \in CheckApiOutcomes, shape \in RemoteShapes :
       CheckAnswer(api, shape)
  \/ CheckBackoffDone
  \/ CheckSleepDone

InitCheck ==
  CheckInit /\ BotIdle /\ PermIdle /\ SimIdle /\ RetryIdle /\ PollIdle
  /\ StartIdle /\ GuardIdle /\ PreIdle /\ RaceIdle /\ RegIdle
SpecCheck == InitCheck /\ [][CheckNext]_vars

\* C37: between two consecutive fetches a poller sleeps for its interval,
\* also when the earlier fetch ended in an error: no fetch follows another
\* back to back.
C37_SleepsBetweenFetches == ~checkHist.backToBack

\* Every await of a call under way settles: the provider answers or the
\* request fails, and the timers of the sleeps fire.
SpecCheckFair == SpecCheck /\ WF_vars(CheckNext)

WrapperCheck == checkCall.variant = "vultrWrapper"

\* C38: checkInstanceStatus of the wrapper always terminates: it makes at
\* most maxAttempts fetches, hence at most maxAttempts x (maxRetries + 1)
\* requests to the provider, and it returns false when none of its fetches
\* read the target state.
C38_CheckTerminatesWithinBounds ==
  /\ [](WrapperCheck =>
         /\ checkHist.fetches <= checkCall.maxAttempts
         /\ checkHist.requests <=
              checkCall.maxAttempts * (GetInstanceOptions.maxRetries + 1)
         /\ (checkFrame.pc = "done" /\ ~checkHist.sawTarget) =>
              checkHist.result = [kind |-> "returned", value |-> FALSE])
  /\ [](WrapperCheck => <>(checkFrame.pc = "done"))

\* C38 happens: a call with maxAttempts = 2 has used all its fetches and all
\* the requests they may make, and has returned false.
C38_Witness ==
  /\ WrapperCheck
  /\ checkCall.maxAttempts = 2
  /\ checkFrame.pc = "done"
  /\ checkHist.fetches = 2
  /\ checkHist.requests = 2 * (DefaultMaxRetries + 1)
  /\ ~checkHist.sawTarget
  /\ checkHist.result = [kind |-> "returned", value |-> FALSE]
====
